---- MODULE Spec2Model ----
(***************************************************************************)
(* Model of the mcp-jira-server core: the retrying HTTP transport of       *)
(* JiraClient.request, the FieldDetector with its cache, the link-issues   *)
(* fallback and the issue type normalizer.                                  *)
(*                                                                         *)
(* JavaScript strings are TLA+ strings; the string methods the code uses   *)
(* (includes, startsWith, toLowerCase, join, substring, RegExp.test) are   *)
(* operators computed character by character.                              *)
(***************************************************************************)
EXTENDS Integers, Sequences, FiniteSets, TLC

VARIABLES
    \* ---- JiraClient.request / retry ----
    rqPc,        \* "idle" | "attempting" | "waiting" | "done"
    rqAttempt,   \* retry(): attempt
    rqDelay,     \* retry(): delay
    rqCalls,     \* number of fetch() calls of the current request
    rqWaited,    \* delays handed to setTimeout in the current request
    rqHistory,   \* what each attempt of the current request received
    rqLast,      \* response of the latest attempt
    rqLastError, \* retry(): lastError.message
    rqOutcome,   \* JiraApiResponse returned by request
    rqOp,        \* the JiraClient operation that called request
    rqSent,      \* what each fetch() of the current request was given
    rqReturn     \* JiraApiResponse the operation returned to its caller

rqVars == <<rqPc, rqAttempt, rqDelay, rqCalls, rqWaited, rqHistory, rqLast,
            rqLastError, rqOutcome, rqOp, rqSent, rqReturn>>

VARIABLES
    \* ---- detectFields applied to one metadata result ----
    fdPc,        \* "input" | "output"
    fdResult,    \* what getCreateMeta returned
    fdIssueType, \* the issueType argument ("" when not given)
    fdOut,       \* what detectFields did with it
    fdAllFields  \* the allFields map it built, in insertion order

fdVars == <<fdPc, fdResult, fdIssueType, fdOut, fdAllFields>>

VARIABLES
    \* ---- FieldDetector instance and its callers ----
    fieldCache,  \* this.fieldCache: cache key -> detected fields
    dtPc,        \* per caller: "idle" | "awaiting" (in await getCreateMeta)
    dtArgs,      \* per caller: arguments of the call in flight
    dtRet,       \* per caller: what the latest call returned
    dtStats,     \* per cache key, since the latest clearCache: endpoint
                 \* queries, cache hits, whether a call has stored a result,
                 \* queries issued after that
    dtStarted,   \* number of detectFields calls made so far
    dtOverrun    \* per caller: clearCache ran for the scope of the call in
                 \* flight since the call began

dtVars == <<fieldCache, dtPc, dtArgs, dtRet, dtStats, dtStarted, dtOverrun>>

VARIABLES
    \* ---- link-issues handler ----
    lkPc,        \* "idle" | "linking" | "fetching" | "relinking" | "done"
    lkType,      \* params.linkType
    lkCalls,     \* link type names passed to client.linkIssues, in order
    lkFetches,   \* number of client.getLinkTypes calls
    lkResult,    \* result: the latest outcome of client.linkIssues
    lkTypes,     \* linkTypes: the list taken from the getLinkTypes result
    lkReply      \* what the handler returned

lkVars == <<lkPc, lkType, lkCalls, lkFetches, lkResult, lkTypes, lkReply>>

VARIABLES
    \* ---- normalizeIssueType applied to one name ----
    nmPc,        \* "input" | "output"
    nmInput,     \* localizedType
    nmOut        \* the value returned

nmVars == <<nmPc, nmInput, nmOut>>

VARIABLES
    \* ---- batch-comment handler ----
    bcPc,        \* "idle" | "awaiting" (in await Promise.all) | "done"
    bcKeys,      \* params.issueKeys
    bcContinue,  \* params.continueOnError
    bcDispatched,\* issue keys client.addComment was called with, in order
    bcSettled,   \* per position: what its commentPromise resolved to
    bcReply      \* what the handler returned

bcVars == <<bcPc, bcKeys, bcContinue, bcDispatched, bcSettled, bcReply>>

VARIABLES
    \* ---- create-issue handler ----
    ciPc,        \* "idle" | "creating" | "testing" | "linking" | "done"
    ciConfig,    \* config
    ciParams,    \* params
    ciCreated,   \* payloads handed to client.createIssue, in order
    ciLinked,    \* arguments of the client.linkIssues calls, in order
    ciIssueKey,  \* issueKey
    ciTestKey,   \* testKey
    ciReply      \* what the handler returned (while running: response so far)

ciVars == <<ciPc, ciConfig, ciParams, ciCreated, ciLinked, ciIssueKey,
            ciTestKey, ciReply>>

VARIABLES
    \* ---- retry() called with any options and any fn ----
    rtPc,        \* "idle" | "attempting" | "waiting" | "returned" | "threw"
    rtPolicy,    \* options after the defaults are filled in
    rtAttempt,   \* attempt
    rtDelay,     \* delay
    rtCalls,     \* number of calls of fn
    rtWaited,    \* delays handed to setTimeout, in order
    rtLastError, \* lastError.message
    rtThrown     \* message of the error retry() threw

rtVars == <<rtPc, rtPolicy, rtAttempt, rtDelay, rtCalls, rtWaited,
            rtLastError, rtThrown>>

VARIABLES
    \* ---- create-epic-with-subtasks handler ----
    esPc,              \* "idle" | "epic" | "subtasks" | "fallback" | "done"
    esConfig,          \* config
    esParams,          \* params
    esEpicKey,         \* epicKey
    esPos,             \* position of the running loop in params.subtasks
    esSent,            \* calls of client.createIssue, in order
    esResults,         \* what these calls gave back, in order
    esSubtaskResults,  \* subtaskResults
    esFailedSubtasks,  \* failedSubtasks
    esCreatedTasks,    \* createdTasks
    esReply            \* what the handler returned

esVars == <<esPc, esConfig, esParams, esEpicKey, esPos, esSent, esResults,
            esSubtaskResults, esFailedSubtasks, esCreatedTasks, esReply>>

VARIABLES
    \* ---- transition-issue handler ----
    trPc,        \* "idle" | "fetching" | "posting" | "done"
    trParams,    \* params
    trFetches,   \* number of client.getTransitions calls
    trFetched,   \* transitionsResult
    trPosts,     \* arguments of the client.transitionIssue calls, in order
    trReply      \* what the handler returned

trVars == <<trPc, trParams, trFetches, trFetched, trPosts, trReply>>

vars == <<rqVars, fdVars, dtVars, lkVars, nmVars, bcVars, ciVars, rtVars,
          esVars, trVars>>

\* what each part of the program leaves alone
notRq == <<fdVars, dtVars, lkVars, nmVars, bcVars, ciVars,
          rtVars, esVars, trVars>>
notFd == <<rqVars, dtVars, lkVars, nmVars, bcVars, ciVars,
          rtVars, esVars, trVars>>
notDt == <<rqVars, fdVars, lkVars, nmVars, bcVars, ciVars,
          rtVars, esVars, trVars>>
notLk == <<rqVars, fdVars, dtVars, nmVars, bcVars, ciVars,
          rtVars, esVars, trVars>>
notNm == <<rqVars, fdVars, dtVars, lkVars, bcVars, ciVars,
          rtVars, esVars, trVars>>
notBc == <<rqVars, fdVars, dtVars, lkVars, nmVars, ciVars,
          rtVars, esVars, trVars>>
notCi == <<rqVars, fdVars, dtVars, lkVars, nmVars, bcVars,
          rtVars, esVars, trVars>>
notRt == <<rqVars, fdVars, dtVars, lkVars, nmVars, bcVars,
          ciVars, esVars, trVars>>
notEs == <<rqVars, fdVars, dtVars, lkVars, nmVars, bcVars,
          ciVars, rtVars, trVars>>
notTr == <<rqVars, fdVars, dtVars, lkVars, nmVars, bcVars,
          ciVars, rtVars, esVars>>

-----------------------------------------------------------------------------
(* String helpers (String.prototype)                                       *)

Min(a, b) == IF a <= b THEN a ELSE b

\* s.includes(sub)
Includes(s, sub) ==
    \E i \in 1..(Len(s) - Len(sub) + 1) : SubSeq(s, i, i + Len(sub) - 1) = sub

\* s.startsWith(p)
StartsWith(s, p) == Len(p) <= Len(s) /\ SubSeq(s, 1, Len(p)) = p

\* s.substring(0, n)
Substring0(s, n) == SubSeq(s, 1, Min(n, Len(s)))

\* arr.join(sep)
RECURSIVE Join(_, _)
Join(arr, sep) ==
    IF Len(arr) = 0 THEN ""
    ELSE IF Len(arr) = 1 THEN arr[1]
    ELSE arr[1] \o sep \o Join(Tail(arr), sep)

\* The source's strings hold Czech letters.  They are written here in
\* decomposed form, the base letter followed by a mark: ' for the acute
\* accent, ^ for the caron and * for the ring ("u'kol", "pr^i'be^h").
\* toLowerCase acts on the base letter and leaves the marks alone.
UpperChars == <<"A","B","C","D","E","F","G","H","I","J","K","L","M","N","O",
                "P","Q","R","S","T","U","V","W","X","Y","Z">>
LowerChars == <<"a","b","c","d","e","f","g","h","i","j","k","l","m","n","o",
                "p","q","r","s","t","u","v","w","x","y","z">>

LowerChar(c) ==
    IF \E i \in 1..Len(UpperChars) : UpperChars[i] = c
    THEN LowerChars[CHOOSE i \in 1..Len(UpperChars) : UpperChars[i] = c]
    ELSE c

\* s.toLowerCase()
RECURSIVE toLowerCase(_)
toLowerCase(s) ==
    IF Len(s) = 0 THEN ""
    ELSE LowerChar(SubSeq(s, 1, 1)) \o toLowerCase(SubSeq(s, 2, Len(s)))

-----------------------------------------------------------------------------
(* retry.ts and JiraClient.request                                         *)

maxAttempts == 3
delayMs == 1000
backoffMultiplier == 2
maxDelayMs == 10000
ErrorTextLimit == 200

NoJson == [kind |-> "none", keys |-> {}, hasEM |-> FALSE, em |-> <<>>,
           hasErrors |-> FALSE, errors |-> <<>>, message |-> ""]

JsonData(ks) == [NoJson EXCEPT !.kind = "object", !.keys = ks]
JsonNull == [NoJson EXCEPT !.kind = "null"]
JsonErr(hasEM, em, hasErrors, errors, message) ==
    [kind |-> "object", keys |-> {}, hasEM |-> hasEM, em |-> em,
     hasErrors |-> hasErrors, errors |-> errors, message |-> message]

\* {} as T
EmptyPayload == JsonData({})

StatusText(status) ==
    CASE status = 200 -> "OK"
      [] status = 201 -> "Created"
      [] status = 204 -> "No Content"
      [] status = 400 -> "Bad Request"
      [] status = 404 -> "Not Found"
      [] status = 500 -> "Internal Server Error"
      [] status = 503 -> "Service Unavailable"
      [] OTHER -> ""

OkStatuses == {200, 201, 204}
ClientErrorStatuses == {400, 404}
ServerErrorStatuses == {500, 503}

ContentTypes == {"", "application/json;charset=UTF-8", "text/html"}
ContentLengths == {"", "0", "57"}

\* JSON documents an error response may carry
ErrorJsonBodies ==
    { JsonErr(TRUE, <<"Issue does not exist">>, FALSE, <<>>, ""),
      JsonErr(TRUE, <<"Upstream answered HTTP 404", "try later">>, FALSE, <<>>, ""),
      JsonErr(TRUE, <<>>, TRUE, <<<<"summary", "is required">>>>, ""),
      JsonErr(FALSE, <<>>, TRUE, <<<<"summary", "is required">>, <<"project", "HTTP 400">>>>, ""),
      JsonErr(FALSE, <<>>, TRUE, <<>>, "ignored"),
      JsonErr(FALSE, <<>>, FALSE, <<>>, "Unauthorized"),
      JsonErr(FALSE, <<>>, FALSE, <<>>, ""),
      JsonNull }

ErrorTexts == {"", "<html>gateway</html>", "proxy: HTTP 407"}

HttpResponse(status, ct, cl, parses, json, text) ==
    [kind |-> "http", status |-> status, contentType |-> ct,
     contentLength |-> cl, parses |-> parses, json |-> json, text |-> text,
     netMessage |-> ""]

NetworkFailure(m) ==
    [kind |-> "network", status |-> 0, contentType |-> "", contentLength |-> "",
     parses |-> FALSE, json |-> NoJson, text |-> "", netMessage |-> m]

NetworkMessages == {"fetch failed", "socket hang up"}

Responses ==
    { HttpResponse(s, ct, cl, p, IF p THEN j ELSE NoJson, "") :
        s \in OkStatuses, ct \in ContentTypes, cl \in ContentLengths,
        p \in BOOLEAN, j \in {JsonData({"id", "key"}), JsonNull} }
    \cup
    { HttpResponse(s, "application/json;charset=UTF-8", "", TRUE, j, "") :
        s \in ClientErrorStatuses \cup ServerErrorStatuses, j \in ErrorJsonBodies }
    \cup
    { HttpResponse(s, "application/json;charset=UTF-8", "", FALSE, NoJson, "") :
        s \in ClientErrorStatuses \cup ServerErrorStatuses }
    \cup
    { HttpResponse(s, ct, "", FALSE, NoJson, t) :
        s \in ClientErrorStatuses \cup ServerErrorStatuses,
        ct \in {"", "text/html"}, t \in ErrorTexts }
    \cup
    { NetworkFailure(m) : m \in NetworkMessages }

\* res.ok
ResOk(res) == res.status >= 200 /\ res.status <= 299

StatusLine(res) == "HTTP " \o ToString(res.status) \o ": " \o StatusText(res.status)

\* Object.entries(errors).map(([k, v]) => `${k}: ${v}`)
FlattenErrors(errors) == [i \in 1..Len(errors) |-> errors[i][1] \o ": " \o errors[i][2]]

\* the message of the Error thrown for a non-ok response
ErrorMessageOf(res) ==
    LET statusLine == StatusLine(res) IN
    IF Includes(res.contentType, "application/json")
    THEN IF ~res.parses \/ res.json.kind # "object" THEN statusLine
         ELSE IF res.json.hasEM THEN Join(res.json.em, ", ")
         ELSE IF res.json.hasErrors
              THEN LET errs == Join(FlattenErrors(res.json.errors), ", ")
                   IN IF errs # "" THEN errs ELSE statusLine
         ELSE IF res.json.message # "" THEN res.json.message
         ELSE statusLine
    ELSE IF res.text # ""
         THEN statusLine \o " - " \o Substring0(res.text, ErrorTextLimit)
         ELSE statusLine

Returned(data) == [threw |-> FALSE, success |-> TRUE, data |-> data, message |-> ""]
Thrown(m) == [threw |-> TRUE, success |-> FALSE, data |-> NoJson, message |-> m]

\* AttemptResult without the content-length test of the empty-body check
AttemptResultNoLengthCheck(res) ==
    IF res.kind = "network" THEN Thrown(res.netMessage)
    ELSE IF ~ResOk(res) THEN Thrown(ErrorMessageOf(res))
    ELSE IF res.contentType = "" \/ res.status = 204
         THEN Returned(EmptyPayload)
    ELSE IF Includes(res.contentType, "application/json")
         THEN IF res.parses THEN Returned(res.json) ELSE Returned(EmptyPayload)
    ELSE Returned(EmptyPayload)

\* AttemptResult letting the JSON parse error of a 2xx response escape
AttemptResultParseThrows(res) ==
    IF res.kind = "network" THEN Thrown(res.netMessage)
    ELSE IF ~ResOk(res) THEN Thrown(ErrorMessageOf(res))
    ELSE IF res.contentType = "" \/ res.contentLength = "0" \/ res.status = 204
         THEN Returned(EmptyPayload)
    ELSE IF Includes(res.contentType, "application/json")
         THEN IF res.parses THEN Returned(res.json)
              ELSE Thrown("Unexpected token < in JSON at position 0")
    ELSE Returned(EmptyPayload)

\* one run of the function handed to retry(): fetch and normalise
AttemptResult(res) ==
    IF res.kind = "network" THEN Thrown(res.netMessage)
    ELSE IF ~ResOk(res) THEN Thrown(ErrorMessageOf(res))
    ELSE IF res.contentType = "" \/ res.contentLength = "0" \/ res.status = 204
         THEN Returned(EmptyPayload)
    ELSE IF Includes(res.contentType, "application/json")
         THEN IF res.parses THEN Returned(res.json) ELSE Returned(EmptyPayload)
    ELSE Returned(EmptyPayload)

\* retry(): the 4xx test on the caught error
IsClientError(message) == Includes(message, "HTTP 4")

\* JiraApiResponse: hasData and hasError tell which of the optional
\* properties data and error the object carries
Success(data) ==
    [set |-> TRUE, success |-> TRUE, hasData |-> TRUE, data |-> data,
     hasError |-> FALSE, error |-> ""]
\* a failure object that still carries an (empty) payload
FailureWithPayload(m) ==
    [set |-> TRUE, success |-> FALSE, hasData |-> TRUE, data |-> EmptyPayload,
     hasError |-> TRUE, error |-> m]

Failure(m) ==
    [set |-> TRUE, success |-> FALSE, hasData |-> FALSE, data |-> NoJson,
     hasError |-> TRUE, error |-> m]
NoOutcome ==
    [set |-> FALSE, success |-> FALSE, hasData |-> FALSE, data |-> NoJson,
     hasError |-> FALSE, error |-> ""]

NoResponse == NetworkFailure("")

-----------------------------------------------------------------------------
(* Request bodies.  A JavaScript value handed to request() as body is a     *)
(* tree: a string, a number, or an object whose own properties are kept in  *)
(* insertion order.  JSON.stringify turns it into the text given to fetch.  *)

Str(x) == [t |-> "str", s |-> x, m |-> <<>>]
Num(x) == [t |-> "num", s |-> x, m |-> <<>>]
Obj(members) == [t |-> "obj", s |-> "", m |-> members]
Undefined == [t |-> "undefined", s |-> "", m |-> <<>>]

Quote(x) == "\"" \o x \o "\""

\* JSON.stringify(value)
RECURSIVE Stringify(_)
Stringify(v) ==
    IF v.t = "str" THEN Quote(v.s)
    ELSE IF v.t = "num" THEN v.s
    ELSE "{" \o Join([i \in 1..Len(v.m) |->
                         Quote(v.m[i][1]) \o ":" \o Stringify(v.m[i][2])], ",")
             \o "}"

\* number of custom fields a caller adds to the field map of a payload
MaxExtraFields == 2

\* entries a caller may put in the field map besides the summary
ExtraFields ==
    << <<"cf_55", Str("PROJ-10")>>,
       <<"customfield_10016", Num("5")>>,
       <<"labels", Str("backend")>> >>

\* the field maps of the payloads handed to createIssue / updateIssue
FieldMaps ==
    { Obj(<< <<"project", Obj(<< <<"key", Str("PR")>> >>)>>,
             <<"summary", Str("Fix login")>> >>
          \o SubSeq(ExtraFields, 1, n)) :
        n \in 0..Min(MaxExtraFields, Len(ExtraFields)) }
    \cup { Obj(<< ExtraFields[1], <<"summary", Str("Fix login")>> >>) }

\* CreateIssuePayload / UpdateIssuePayload
Payloads == { Obj(<< <<"fields", fm>> >>) : fm \in FieldMaps }

IssueKeys == {"PR-1"}
CommentTexts == {"Done."}

\* a call of an operation: the payload its caller handed over (Undefined
\* for the operations that take none) and what the operation hands to
\* request(), the method and the body (the endpoint is not modelled)
Operation(name, payload, method, body) ==
    [name |-> name, payload |-> payload, method |-> method, body |-> body]

\* createIssue that keeps only the fields it knows
createIssueKnownFields(payload) ==
    LET fields == payload.m[1][2].m
        known == SelectSeq(fields, LAMBDA e : e[1] \in {"project", "summary", "labels"})
    IN Operation("createIssue", payload, "POST",
                 Obj(<< <<"fields", Obj(known)>> >>))

createIssue(payload) == Operation("createIssue", payload, "POST", payload)
updateIssue(issueKey, payload) ==
    Operation("updateIssue", payload, "PUT", payload)
getIssue(issueKey) == Operation("getIssue", Undefined, "GET", Undefined)
searchIssues == Operation("searchIssues", Undefined, "GET", Undefined)
getLinkTypes == Operation("getLinkTypes", Undefined, "GET", Undefined)
linkIssues(inwardIssue, outwardIssue, linkType) ==
    Operation("linkIssues", Undefined, "POST",
              Obj(<< <<"type", Obj(<< <<"name", Str(linkType)>> >>)>>,
                     <<"inwardIssue", Obj(<< <<"key", Str(inwardIssue)>> >>)>>,
                     <<"outwardIssue", Obj(<< <<"key", Str(outwardIssue)>> >>)>> >>))
getTransitions(issueKey) == Operation("getTransitions", Undefined, "GET", Undefined)
transitionIssue(issueKey, transitionId) ==
    Operation("transitionIssue", Undefined, "POST",
              Obj(<< <<"transition", Obj(<< <<"id", Str(transitionId)>> >>)>> >>))
addComment(issueKey, comment) ==
    Operation("addComment", Undefined, "POST",
              Obj(<< <<"body", Obj(<< <<"type", Str("doc")>>,
                                      <<"version", Num("1")>>,
                                      <<"text", Str(comment)>> >>)>> >>))
getHistory(issueKey) == Operation("getHistory", Undefined, "GET", Undefined)
getAttachments(issueKey) == Operation("getAttachments", Undefined, "GET", Undefined)
getBoards == Operation("getBoards", Undefined, "GET", Undefined)
getCreateMeta(projectKey) == Operation("getCreateMeta", Undefined, "GET", Undefined)

Operations ==
    { createIssue(p) : p \in Payloads }
    \cup { updateIssue(k, p) : k \in IssueKeys, p \in Payloads }
    \cup { getIssue(k) : k \in IssueKeys }
    \cup { linkIssues("PR-1", "PR-2", "Relates") }
    \cup { getTransitions(k) : k \in IssueKeys }
    \cup { transitionIssue(k, "31") : k \in IssueKeys }
    \cup { addComment(k, c) : k \in IssueKeys, c \in CommentTexts }
    \cup { getHistory(k) : k \in IssueKeys }
    \cup { getAttachments(k) : k \in IssueKeys }
    \cup { searchIssues, getLinkTypes, getBoards, getCreateMeta("PR") }

NoOperation == Operation("", Undefined, "", Undefined)

\* if (body) options.body = JSON.stringify(body): an object is truthy
FetchOptions(op) ==
    [method |-> op.method,
     hasBody |-> op.body.t # "undefined",
     body |-> IF op.body.t # "undefined" THEN Stringify(op.body) ELSE ""]

\* !value for the parsed payload of a response
Falsy(data) == data.kind \in {"none", "null"}

\* result.data.fields?.attachment || []
AttachmentsOf(data) == [NoJson EXCEPT !.kind = "array"]

\* getAttachments that answers with an empty list when the issue cannot be read
OperationResultEmptyList(op, result) ==
    IF op.name = "getAttachments"
    THEN Success(AttachmentsOf(result.data))
    ELSE result

\* what the operation returns to its caller once request() has returned
OperationResult(op, result) ==
    IF op.name = "getAttachments"
    THEN IF ~result.success \/ Falsy(result.data)
         THEN [Failure(result.error) EXCEPT !.hasError = result.hasError]
         ELSE Success(AttachmentsOf(result.data))
    ELSE result

RqInit ==
    /\ rqPc = "idle"
    /\ rqAttempt = 1
    /\ rqDelay = delayMs
    /\ rqCalls = 0
    /\ rqWaited = <<>>
    /\ rqHistory = <<>>
    /\ rqLast = NoResponse
    /\ rqLastError = ""
    /\ rqOutcome = NoOutcome
    /\ rqOp = NoOperation
    /\ rqSent = <<>>
    /\ rqReturn = NoOutcome

\* an operation of JiraClient calls request: retry() starts its loop
RqStart(op) ==
    /\ rqPc = "idle"
    /\ rqPc' = "attempting"
    /\ rqAttempt' = 1
    /\ rqDelay' = delayMs
    /\ rqCalls' = 0
    /\ rqWaited' = <<>>
    /\ rqHistory' = <<>>
    /\ rqLast' = NoResponse
    /\ rqLastError' = ""
    /\ rqOutcome' = NoOutcome
    /\ rqOp' = op
    /\ rqSent' = <<>>
    /\ rqReturn' = NoOutcome
    /\ UNCHANGED notRq

\* what the history keeps of an attempt
Seen(res) == [kind |-> res.kind, status |-> res.status]

\* one iteration of the loop of retry(): await fn(), then the catch block;
\* when the loop ends, request() returns and the operation with it
RqAttempt ==
    /\ rqPc = "attempting"
    /\ \E res \in Responses :
        LET r == AttemptResult(res) IN
        /\ rqCalls' = rqCalls + 1
        /\ rqSent' = Append(rqSent, FetchOptions(rqOp))
        /\ rqLast' = res
        /\ rqHistory' = Append(rqHistory, Seen(res))
        /\ IF ~r.threw
           THEN /\ rqPc' = "done"
                /\ rqOutcome' = Success(r.data)
                /\ UNCHANGED rqLastError
           ELSE /\ rqLastError' = r.message
                /\ IF IsClientError(r.message)
                   THEN rqPc' = "done" /\ rqOutcome' = Failure(r.message)
                   ELSE IF rqAttempt < maxAttempts
                        THEN rqPc' = "waiting" /\ UNCHANGED rqOutcome
                        ELSE rqPc' = "done" /\ rqOutcome' = Failure(r.message)
    /\ rqReturn' = IF rqPc' = "done" THEN OperationResult(rqOp, rqOutcome')
                                     ELSE rqReturn
    /\ UNCHANGED <<rqAttempt, rqDelay, rqWaited, rqOp>>
    /\ UNCHANGED notRq

\* the wait of a loop whose counter stands still
RqWaitSameAttempt ==
    /\ rqPc = "waiting"
    /\ rqWaited' = Append(rqWaited, rqDelay)
    /\ rqDelay' = Min(rqDelay * backoffMultiplier, maxDelayMs)
    /\ rqAttempt' = rqAttempt
    /\ rqPc' = "attempting"
    /\ UNCHANGED <<rqCalls, rqHistory, rqLast, rqLastError, rqOutcome,
                   rqOp, rqSent, rqReturn>>
    /\ UNCHANGED notRq

\* the setTimeout between two attempts, then delay is scaled and attempt++
RqWait ==
    /\ rqPc = "waiting"
    /\ rqWaited' = Append(rqWaited, rqDelay)
    /\ rqDelay' = Min(rqDelay * backoffMultiplier, maxDelayMs)
    /\ rqAttempt' = rqAttempt + 1
    /\ rqPc' = "attempting"
    /\ UNCHANGED <<rqCalls, rqHistory, rqLast, rqLastError, rqOutcome,
                   rqOp, rqSent, rqReturn>>
    /\ UNCHANGED notRq

\* the caller has taken the result: the locals of the finished call are gone
\* and the client is ready for its next call
RqFinish ==
    /\ rqPc = "done"
    /\ rqPc' = "idle"
    /\ rqAttempt' = 1
    /\ rqDelay' = delayMs
    /\ rqCalls' = 0
    /\ rqWaited' = <<>>
    /\ rqHistory' = <<>>
    /\ rqLast' = NoResponse
    /\ rqLastError' = ""
    /\ rqOutcome' = NoOutcome
    /\ rqOp' = NoOperation
    /\ rqSent' = <<>>
    /\ rqReturn' = NoOutcome
    /\ UNCHANGED notRq

RqNext ==
    \/ \E op \in Operations : RqStart(op)
    \/ RqAttempt
    \/ RqWait
    \/ RqFinish

-----------------------------------------------------------------------------
(* RegExp.test for the patterns of field-detector.ts.  A pattern is a       *)
(* sequence of tokens: a literal, "ws" for \s* and "opt" for an optional    *)
(* character (x?).  All patterns carry the i flag.                          *)

Lit(str) == [t |-> "lit", s |-> str]
Ws == [t |-> "ws", s |-> ""]
Opt(c) == [t |-> "opt", s |-> c]

IsSpace(c) == c = " "

StartsAt(s, i, str) ==
    i + Len(str) - 1 <= Len(s) /\ SubSeq(s, i, i + Len(str) - 1) = str

\* the pattern from token k on matches s at position i
RECURSIVE MatchHere(_, _, _, _)
MatchHere(pat, k, s, i) ==
    IF k > Len(pat) THEN TRUE
    ELSE CASE pat[k].t = "lit" ->
                StartsAt(s, i, pat[k].s) /\ MatchHere(pat, k + 1, s, i + Len(pat[k].s))
           [] pat[k].t = "ws" ->
                \/ MatchHere(pat, k + 1, s, i)
                \/ (i <= Len(s) /\ IsSpace(SubSeq(s, i, i)) /\ MatchHere(pat, k, s, i + 1))
           [] pat[k].t = "opt" ->
                \/ (StartsAt(s, i, pat[k].s) /\ MatchHere(pat, k + 1, s, i + 1))
                \/ MatchHere(pat, k + 1, s, i)

\* pattern.test(s), pattern with the i flag
RegexTest(pat, s) ==
    LET low == toLowerCase(s)
    IN \E i \in 1..(Len(low) + 1) : MatchHere(pat, 1, low, i)

-----------------------------------------------------------------------------
(* FieldDetector.detectFields: from the create-metadata result to the map  *)

fieldPatterns == <<
    [role |-> "storyPoints", patterns |-> <<
        <<Lit("story"), Ws, Lit("point"), Opt("s")>>,
        <<Lit("story"), Ws, Lit("point")>>,
        <<Lit("estimation")>>,
        <<Lit("bodove'"), Ws, Lit("ohodnoceni'")>>,
        <<Lit("body")>> >>],
    [role |-> "epicLink", patterns |-> <<
        <<Lit("epic"), Ws, Lit("link")>>,
        <<Lit("parent"), Ws, Lit("epic")>>,
        <<Lit("epic"), Ws, Lit("name")>>,
        <<Lit("epic")>> >>],
    [role |-> "acceptanceCriteria", patterns |-> <<
        <<Lit("acceptance"), Ws, Lit("criteria")>>,
        <<Lit("akceptac^ni'"), Ws, Lit("krite'ria")>>,
        <<Lit("definition"), Ws, Lit("of"), Ws, Lit("done")>> >>],
    [role |-> "team", patterns |-> <<
        <<Lit("team")>>,
        <<Lit("ty'm")>> >>],
    [role |-> "startDate", patterns |-> <<
        <<Lit("start"), Ws, Lit("date")>>,
        <<Lit("datum"), Ws, Lit("zaha'jeni'")>>,
        <<Lit("zac^a'tek")>> >>],
    [role |-> "dueDate", patterns |-> <<
        <<Lit("due"), Ws, Lit("date")>>,
        <<Lit("datum"), Ws, Lit("dokonc^eni'")>>,
        <<Lit("termi'n")>>,
        <<Lit("deadline")>> >>],
    [role |-> "originalEstimate", patterns |-> <<
        <<Lit("original"), Ws, Lit("estimate")>>,
        <<Lit("pu*vodni'"), Ws, Lit("odhad")>>,
        <<Lit("initial"), Ws, Lit("estimate")>> >>],
    [role |-> "remainingEstimate", patterns |-> <<
        <<Lit("remaining"), Ws, Lit("estimate")>>,
        <<Lit("zby'vaji'ci'"), Ws, Lit("odhad")>>,
        <<Lit("time"), Ws, Lit("remaining")>> >>] >>

Roles == { fieldPatterns[i].role : i \in 1..Len(fieldPatterns) }

\* patterns.some(pattern => pattern.test(fieldName))
SomePatternMatches(patterns, fieldName) ==
    \E j \in 1..Len(patterns) : RegexTest(patterns[j], fieldName)

\* the names and identifiers metadata documents are built from
FieldNames == {"Story Points", "Bodove' ohodnoceni'", "Epic Link", "Summary"}
FieldIds == {"cf_55", "cf_56", "cf_57"}

\* the inner loop over fieldPatterns with its break: the index of the first
\* role one of whose patterns hits the name, 0 when there is none.  The match
\* depends on the name alone and is tabulated over the names in use.
FirstRoleAlways ==
    [n \in FieldNames \cup {""} |-> 1]

FirstRoleIndex ==
    [n \in FieldNames \cup {""} |->
        IF \E i \in 1..Len(fieldPatterns) :
                SomePatternMatches(fieldPatterns[i].patterns, toLowerCase(n))
        THEN CHOOSE i \in 1..Len(fieldPatterns) :
                /\ SomePatternMatches(fieldPatterns[i].patterns, toLowerCase(n))
                /\ \A h \in 1..(i - 1) :
                      ~SomePatternMatches(fieldPatterns[h].patterns, toLowerCase(n))
        ELSE 0]

\* a field definition of the metadata: name "" stands for a missing name,
\* nameIsString = FALSE for a name that is not a string
Field(id, name) == [id |-> id, name |-> name, nameIsString |-> TRUE]
BadField(id) == [id |-> id, name |-> "", nameIsString |-> FALSE]

EmptyMap == [r \in {} |-> ""]

\* the loop over issueTypes with allFields.set unguarded: a later definition
\* of an id replaces the one stored
RECURSIVE UnionFieldsLastWins(_, _)
UnionFieldsLastWins(entries, acc) ==
    IF entries = <<>> THEN acc
    ELSE UnionFieldsLastWins(Tail(entries),
            IF \E i \in 1..Len(acc) : acc[i].id = Head(entries).id
            THEN [i \in 1..Len(acc) |->
                    IF acc[i].id = Head(entries).id THEN Head(entries) ELSE acc[i]]
            ELSE Append(acc, Head(entries)))

\* the loop over issueTypes filling allFields: first definition of an id wins
RECURSIVE UnionFields(_, _)
UnionFields(entries, acc) ==
    IF entries = <<>> THEN acc
    ELSE UnionFields(Tail(entries),
            IF \E i \in 1..Len(acc) : acc[i].id = Head(entries).id
            THEN acc
            ELSE Append(acc, Head(entries)))

RECURSIVE ConcatFields(_)
ConcatFields(issueTypes) ==
    IF issueTypes = <<>> THEN <<>>
    ELSE Head(issueTypes).fields \o ConcatFields(Tail(issueTypes))

\* the matching loop keeping the field a role already has
RECURSIVE MatchFieldsKeepFirst(_, _)
MatchFieldsKeepFirst(allFields, detected) ==
    IF allFields = <<>> THEN detected
    ELSE LET f == Head(allFields)
             idx == FirstRoleIndex[f.name]
         IN MatchFieldsKeepFirst(Tail(allFields),
                IF idx = 0 THEN detected
                ELSE detected @@ (fieldPatterns[idx].role :> f.id))

\* allFields.forEach: every field whose name hits a role stores its key there
RECURSIVE MatchFields(_, _)
MatchFields(allFields, detected) ==
    IF allFields = <<>> THEN detected
    ELSE LET f == Head(allFields)
             idx == FirstRoleIndex[f.name]
         IN MatchFields(Tail(allFields),
                IF idx = 0 THEN detected
                ELSE (fieldPatterns[idx].role :> f.id) @@ detected)

\* the filter comparing the names as they are
RECURSIVE FilterIssueTypesCaseSensitive(_, _)
FilterIssueTypesCaseSensitive(issueTypes, issueType) ==
    IF issueTypes = <<>> THEN <<>>
    ELSE (IF Head(issueTypes).name = issueType
          THEN <<Head(issueTypes)>> ELSE <<>>)
         \o FilterIssueTypesCaseSensitive(Tail(issueTypes), issueType)

\* project.issuetypes?.filter(it => it.name.toLowerCase() === issueType.toLowerCase())
RECURSIVE FilterIssueTypes(_, _)
FilterIssueTypes(issueTypes, issueType) ==
    IF issueTypes = <<>> THEN <<>>
    ELSE (IF toLowerCase(Head(issueTypes).name) = toLowerCase(issueType)
          THEN <<Head(issueTypes)>> ELSE <<>>)
         \o FilterIssueTypes(Tail(issueTypes), issueType)

\* results of getCreateMeta
MetaFailure == [kind |-> "failure", projects |-> <<>>]
MetaNoData == [kind |-> "nodata", projects |-> <<>>]
MetaData(projects) == [kind |-> "data", projects |-> projects]
Project(hasIssueTypes, issueTypes) ==
    [hasIssueTypes |-> hasIssueTypes, issuetypes |-> issueTypes]
IssueTypeMeta(name, fields) == [name |-> name, fields |-> fields]

Detected(fields) == [raised |-> FALSE, cached |-> TRUE, fields |-> fields]
Nothing == [raised |-> FALSE, cached |-> FALSE, fields |-> EmptyMap]
Raised == [raised |-> TRUE, cached |-> FALSE, fields |-> EmptyMap]

\* the body of the try block, after await getCreateMeta
DetectBody(result, issueType) ==
    IF result.kind # "data" THEN Nothing
    ELSE IF result.projects = <<>> THEN Nothing
    ELSE LET project == result.projects[1]
             issueTypes == IF issueType # ""
                           THEN FilterIssueTypes(project.issuetypes, issueType)
                           ELSE project.issuetypes
         IN IF ~project.hasIssueTypes \/ issueTypes = <<>> THEN Nothing
            ELSE LET allFields == UnionFields(ConcatFields(issueTypes), <<>>)
                 IN IF \E i \in 1..Len(allFields) : ~allFields[i].nameIsString
                    THEN Raised
                    ELSE Detected(MatchFields(allFields, EmptyMap))

\* the allFields map at the end of the collecting loop, empty when the body
\* returns before it
CollectedFields(result, issueType) ==
    IF result.kind # "data" \/ result.projects = <<>> THEN <<>>
    ELSE LET project == result.projects[1]
             issueTypes == IF issueType # ""
                           THEN FilterIssueTypes(project.issuetypes, issueType)
                           ELSE project.issuetypes
         IN IF ~project.hasIssueTypes THEN <<>>
            ELSE UnionFields(ConcatFields(issueTypes), <<>>)

\* try { ... } with no catch block
DetectOutcomeNoCatch(result, issueType) == DetectBody(result, issueType)

\* try { ... } catch (error) { return {}; }
DetectOutcome(result, issueType) ==
    LET r == DetectBody(result, issueType)
    IN IF r.raised THEN Nothing ELSE r

\* ---- detectFields as a function of the metadata result ----

MaxFields == 2

AllFields ==
    { Field(id, n) : id \in FieldIds, n \in FieldNames } \cup { BadField(id) : id \in FieldIds }

\* field lists of an issue type: at most n fields, identifiers distinct
RECURSIVE FieldSeqs(_)
FieldSeqs(n) ==
    IF n = 0 THEN {<<>>}
    ELSE LET prev == FieldSeqs(n - 1)
         IN prev \cup
            { Append(qf[1], qf[2]) :
                qf \in { x \in prev \X AllFields :
                            /\ Len(x[1]) = n - 1
                            /\ \A i \in 1..Len(x[1]) : x[1][i].id # x[2].id } }

IssueTypeNames == {"Story", "Bug"}

IssueTypeLists ==
    { <<IssueTypeMeta(n, fs)>> : n \in IssueTypeNames, fs \in FieldSeqs(MaxFields) }
    \cup
    { <<IssueTypeMeta(nn[1], fs1), IssueTypeMeta(nn[2], fs2)>> :
        nn \in { x \in IssueTypeNames \X IssueTypeNames : x[1] # x[2] },
        fs1 \in FieldSeqs(MaxFields), fs2 \in FieldSeqs(1) }

MetaResults ==
    { MetaFailure, MetaNoData, MetaData(<<>>),
      MetaData(<<Project(FALSE, <<>>)>>), MetaData(<<Project(TRUE, <<>>)>>) }
    \cup { MetaData(<<Project(TRUE, its)>>) : its \in IssueTypeLists }

IssueTypeArgs == {"", "Story", "bug"}

FdIdle ==
    /\ fdPc = "input" /\ fdResult = MetaFailure /\ fdIssueType = "" /\ fdOut = Nothing
    /\ fdAllFields = <<>>

FdInit ==
    /\ fdPc = "input"
    /\ fdResult \in MetaResults
    /\ fdIssueType \in IssueTypeArgs
    /\ fdOut = Nothing
    /\ fdAllFields = <<>>

\* detectFields on a cache miss, from the result of getCreateMeta to its return
FdDetect ==
    /\ fdPc = "input"
    /\ fdPc' = "output"
    /\ fdOut' = DetectOutcome(fdResult, fdIssueType)
    /\ fdAllFields' = CollectedFields(fdResult, fdIssueType)
    /\ UNCHANGED <<fdResult, fdIssueType>>
    /\ UNCHANGED notFd

\* ---- the FieldDetector instance: cache and overlapping callers ----

MaxCalls == 3

Callers == {1, 2}
ProjectKeys == {"PR", "PR2"}
ScopeIssueTypes == {"", "Story"}

\* `${projectKey}-${issueType || 'all'}`
CacheKey(projectKey, issueType) ==
    projectKey \o "-" \o (IF issueType # "" THEN issueType ELSE "all")

CacheKeys == { CacheKey(p, t) : p \in ProjectKeys, t \in ScopeIssueTypes }

\* the cache test treating an empty map as a miss
CacheHitNonEmpty(cache, key) == key \in DOMAIN cache /\ DOMAIN cache[key] # {}

\* if (this.fieldCache[cacheKey]): any stored object is truthy
CacheHit(cache, key) == key \in DOMAIN cache

\* what the remote answers in this part of the model
ScopeMetaResults ==
    { MetaFailure,
      MetaData(<<>>),
      MetaData(<<Project(TRUE, <<IssueTypeMeta("Bug", <<Field("cf_55", "Story Points")>>)>>)>>),
      MetaData(<<Project(TRUE, <<IssueTypeMeta("Story", <<Field("cf_55", "Story Points")>>)>>)>>),
      MetaData(<<Project(TRUE, <<IssueTypeMeta("Story", <<Field("cf_57", "Summary")>>)>>)>>),
      MetaData(<<Project(TRUE, <<IssueTypeMeta("Story", <<BadField("cf_56")>>)>>)>>) }

NoStats == [queries |-> 0, hits |-> 0, stored |-> FALSE, lateQueries |-> 0]
NoArgs == [projectKey |-> "", issueType |-> ""]

DtInit ==
    /\ fieldCache = [k \in {} |-> EmptyMap]
    /\ dtPc = [c \in Callers |-> "idle"]
    /\ dtArgs = [c \in Callers |-> NoArgs]
    /\ dtRet = [c \in Callers |-> EmptyMap]
    /\ dtStats = [k \in CacheKeys |-> NoStats]
    /\ dtStarted = 0
    /\ dtOverrun = [c \in Callers |-> FALSE]

\* detectFields up to its first await: the cache lookup
DtCall(c, projectKey, issueType) ==
    LET cacheKey == CacheKey(projectKey, issueType) IN
    /\ dtPc[c] = "idle"
    /\ dtStarted < MaxCalls
    /\ dtStarted' = dtStarted + 1
    /\ IF CacheHit(fieldCache, cacheKey)
       THEN /\ dtRet' = [dtRet EXCEPT ![c] = fieldCache[cacheKey]]
            /\ dtStats' = [dtStats EXCEPT ![cacheKey].hits = @ + 1]
            /\ UNCHANGED <<dtPc, dtArgs>>
       ELSE /\ dtPc' = [dtPc EXCEPT ![c] = "awaiting"]
            /\ dtArgs' = [dtArgs EXCEPT ![c] =
                             [projectKey |-> projectKey, issueType |-> issueType]]
            /\ dtStats' = [dtStats EXCEPT
                             ![cacheKey].queries = @ + 1,
                             ![cacheKey].lateQueries =
                                 IF dtStats[cacheKey].stored THEN @ + 1 ELSE @]
            /\ UNCHANGED dtRet
    /\ UNCHANGED <<fieldCache, dtOverrun>>
    /\ UNCHANGED notDt

\* detectFields from the completion of getCreateMeta to its return
DtResume(c, result) ==
    LET cacheKey == CacheKey(dtArgs[c].projectKey, dtArgs[c].issueType)
        out == DetectOutcome(result, dtArgs[c].issueType)
    IN
    /\ dtPc[c] = "awaiting"
    /\ dtPc' = [dtPc EXCEPT ![c] = "idle"]
    /\ dtArgs' = [dtArgs EXCEPT ![c] = NoArgs]
    /\ dtRet' = [dtRet EXCEPT ![c] = out.fields]
    /\ IF out.cached
       THEN /\ fieldCache' = (cacheKey :> out.fields) @@ fieldCache
            /\ dtStats' = [dtStats EXCEPT ![cacheKey].stored = TRUE]
       ELSE UNCHANGED <<fieldCache, dtStats>>
    /\ dtOverrun' = [dtOverrun EXCEPT ![c] = FALSE]
    /\ UNCHANGED dtStarted
    /\ UNCHANGED notDt

\* clearCache(projectKey)
DtClearProject(projectKey) ==
    /\ fieldCache' = [k \in { x \in DOMAIN fieldCache : ~StartsWith(x, projectKey) }
                        |-> fieldCache[k]]
    /\ dtStats' = [k \in CacheKeys |-> NoStats]
    /\ dtOverrun' = [c \in Callers |->
                        dtOverrun[c] \/ (dtPc[c] = "awaiting"
                                          /\ dtArgs[c].projectKey = projectKey)]
    /\ UNCHANGED <<dtPc, dtArgs, dtRet, dtStarted>>
    /\ UNCHANGED notDt

\* clearCache()
DtClearAll ==
    /\ fieldCache' = [k \in {} |-> EmptyMap]
    /\ dtStats' = [k \in CacheKeys |-> NoStats]
    /\ dtOverrun' = [c \in Callers |-> dtOverrun[c] \/ dtPc[c] = "awaiting"]
    /\ UNCHANGED <<dtPc, dtArgs, dtRet, dtStarted>>
    /\ UNCHANGED notDt

DtNext ==
    \/ \E c \in Callers, p \in ProjectKeys, t \in ScopeIssueTypes : DtCall(c, p, t)
    \/ \E c \in Callers, result \in ScopeMetaResults : DtResume(c, result)
    \/ \E p \in ProjectKeys : DtClearProject(p)
    \/ DtClearAll

-----------------------------------------------------------------------------
(* The link-issues handler of issue-tools.ts                               *)

MaxLinkTypes == 2

LinkType(name, inward, outward) == [name |-> name, inward |-> inward, outward |-> outward]

\* link types a Jira instance may define
LinkTypeCatalogue ==
    { LinkType("Blocks", "is blocked by", "blocks"),
      LinkType("Blocker", "Is Blocked By", "Blocks"),
      LinkType("Relates", "relates to", "relates to"),
      LinkType("Duplicate", "is duplicated by", "duplicates") }

RECURSIVE LinkTypeLists(_)
LinkTypeLists(n) ==
    IF n = 0 THEN {<<>>}
    ELSE LET prev == LinkTypeLists(n - 1)
         IN prev \cup
            { Append(ql[1], ql[2]) :
                ql \in { x \in prev \X LinkTypeCatalogue :
                            /\ Len(x[1]) = n - 1
                            /\ \A i \in 1..Len(x[1]) : x[1][i] # x[2] } }

\* results of client.getLinkTypes: a Failure, a Success without data, and a
\* Success whose data is the array itself or an object holding it under
\* issueLinkTypes (or holding nothing)
LinkTypesFailure == [success |-> FALSE, shape |-> "none", list |-> <<>>]
LinkTypesResults ==
    { LinkTypesFailure,
      [success |-> TRUE, shape |-> "null", list |-> <<>>],
      [success |-> TRUE, shape |-> "empty", list |-> <<>>] }
    \cup { [success |-> TRUE, shape |-> sh, list |-> l] :
             sh \in {"array", "object"}, l \in LinkTypeLists(MaxLinkTypes) }

RequestedLinkTypes == {"Blocks", "is blocked by", "Relates to", "Epic-Story Link", "Clones"}

\* results of client.linkIssues
LinkOk == [success |-> TRUE, error |-> ""]
LinkFailed(m) == [success |-> FALSE, error |-> m]
LinkErrors ==
    { "No issue link type with name 'x' found.",
      "Nebyl nalezen typ odkazu",
      "Cannot use a system link type",
      "Nelze pouz^i't typ syste'move'ho propojeni'",
      "Issue does not exist",
      "" }
LinkResults == { LinkOk } \cup { LinkFailed(m) : m \in LinkErrors }

NoReply == [kind |-> "none", detail |-> ""]
Reply(kind, detail) == [kind |-> kind, detail |-> detail]

\* the first test after the literal attempt: an Epic-Story link attempt
IsEpicLinkAttempt(linkType, result) ==
    /\ ~result.success
    /\ \/ Includes(toLowerCase(linkType), "epic")
       \/ Includes(result.error, "syste'move'ho propojeni'")
       \/ Includes(result.error, "system link type")

\* the second test: the failure is about the link type
IsLinkTypeNotFound(result) ==
    /\ ~result.success
    /\ (Includes(result.error, "typ odkazu") \/ Includes(result.error, "link type"))

\* the predicate handed to linkTypes.find
LinkTypeMatches(lt, requestedType) ==
    \/ toLowerCase(lt.name) = requestedType
    \/ toLowerCase(lt.inward) = requestedType
    \/ toLowerCase(lt.outward) = requestedType

\* a lookup that falls back on the first entry when nothing matches
FindLinkTypeOrFirst(linkTypes, linkType) ==
    LET requestedType == toLowerCase(linkType)
        hits == { i \in 1..Len(linkTypes) : LinkTypeMatches(linkTypes[i], requestedType) }
    IN IF hits = {} THEN (IF linkTypes = <<>> THEN 0 ELSE 1)
       ELSE CHOOSE i \in hits : \A j \in hits : i <= j

\* linkTypes.find(...): index of the first match, 0 for undefined
FindLinkType(linkTypes, linkType) ==
    LET requestedType == toLowerCase(linkType)
        hits == { i \in 1..Len(linkTypes) : LinkTypeMatches(linkTypes[i], requestedType) }
    IN IF hits = {} THEN 0
       ELSE CHOOSE i \in hits : \A j \in hits : i <= j

\* the name the second client.linkIssues call is given
RetryNameLiteral(matchingType, linkType) == linkType

RetryName(matchingType, linkType) == matchingType.name

\* linkTypes.map(lt => `"${lt.name}" (${lt.inward}/${lt.outward})`).join(', ')
AvailableTypes(linkTypes) ==
    Join([i \in 1..Len(linkTypes) |->
            "\"" \o linkTypes[i].name \o "\" (" \o linkTypes[i].inward \o "/"
                 \o linkTypes[i].outward \o ")"], ", ")

\* the end of the handler: the report on result
FinalReply(result) ==
    IF ~result.success THEN Reply("failed", result.error) ELSE Reply("linked", "")

LkInit ==
    /\ lkPc = "idle"
    /\ lkType = ""
    /\ lkCalls = <<>>
    /\ lkFetches = 0
    /\ lkResult = LinkOk
    /\ lkTypes = <<>>
    /\ lkReply = NoReply

\* the handler is called and sends the link with the literal type
LkCall(linkType) ==
    /\ lkPc \in {"idle", "done"}
    /\ lkPc' = "linking"
    /\ lkType' = linkType
    /\ lkCalls' = <<linkType>>
    /\ lkFetches' = 0
    /\ lkResult' = LinkOk
    /\ lkTypes' = <<>>
    /\ lkReply' = NoReply
    /\ UNCHANGED notLk

\* the first client.linkIssues returns
LkFirstResult(result) ==
    /\ lkPc = "linking"
    /\ lkResult' = result
    /\ IF IsEpicLinkAttempt(lkType, result)
       THEN /\ lkPc' = "done"
            /\ lkReply' = Reply("epicGuidance", "")
            /\ UNCHANGED lkFetches
       ELSE IF IsLinkTypeNotFound(result)
       THEN /\ lkPc' = "fetching"
            /\ lkFetches' = lkFetches + 1
            /\ UNCHANGED lkReply
       ELSE /\ lkPc' = "done"
            /\ lkReply' = FinalReply(result)
            /\ UNCHANGED lkFetches
    /\ UNCHANGED <<lkType, lkCalls, lkTypes>>
    /\ UNCHANGED notLk

\* client.getLinkTypes returns
LkTypesResult(typesResult) ==
    LET usable == typesResult.success /\ typesResult.shape # "null"
        linkTypes == IF usable THEN typesResult.list ELSE <<>>
        found == FindLinkType(linkTypes, lkType)
    IN
    /\ lkPc = "fetching"
    /\ lkTypes' = linkTypes
    /\ IF usable /\ Len(linkTypes) > 0
       THEN IF found # 0
            THEN /\ lkPc' = "relinking"
                 /\ lkCalls' = Append(lkCalls, RetryName(linkTypes[found], lkType))
                 /\ UNCHANGED lkReply
            ELSE /\ lkPc' = "done"
                 /\ lkReply' = Reply("notFound", AvailableTypes(linkTypes))
                 /\ UNCHANGED lkCalls
       ELSE /\ lkPc' = "done"
            /\ lkReply' = FinalReply(lkResult)
            /\ UNCHANGED lkCalls
    /\ UNCHANGED <<lkType, lkFetches, lkResult>>
    /\ UNCHANGED notLk

\* the second client.linkIssues returns, and a failure about the link type
\* sends the handler back to the metadata
LkRetryResultFetchesAgain(result) ==
    /\ lkPc = "relinking"
    /\ lkResult' = result
    /\ IF IsLinkTypeNotFound(result)
       THEN /\ lkPc' = "fetching"
            /\ lkFetches' = lkFetches + 1
            /\ UNCHANGED lkReply
       ELSE /\ lkPc' = "done"
            /\ lkReply' = FinalReply(result)
            /\ UNCHANGED lkFetches
    /\ UNCHANGED <<lkType, lkCalls, lkTypes>>
    /\ UNCHANGED notLk

\* the second client.linkIssues returns
LkRetryResult(result) ==
    /\ lkPc = "relinking"
    /\ lkResult' = result
    /\ lkPc' = "done"
    /\ lkReply' = FinalReply(result)
    /\ UNCHANGED <<lkType, lkCalls, lkFetches, lkTypes>>
    /\ UNCHANGED notLk

LkNext ==
    \/ \E linkType \in RequestedLinkTypes : LkCall(linkType)
    \/ \E result \in LinkResults : LkFirstResult(result)
    \/ \E typesResult \in LinkTypesResults : LkTypesResult(typesResult)
    \/ \E result \in LinkResults : LkRetryResult(result)

-----------------------------------------------------------------------------
(* normalizeIssueType of issue-tools.ts                                    *)

issueTypeMap == <<
    [standard |-> "Epic", variants |-> <<"Epic", "Epik", "Epika">>],
    [standard |-> "Story", variants |-> <<"Story", "User Story", "Pr^i'be^h",
                                          "Uz^ivatelsky' pr^i'be^h">>],
    [standard |-> "Task", variants |-> <<"Task", "U'kol">>],
    [standard |-> "Bug", variants |-> <<"Bug", "Chyba", "Defekt">>],
    [standard |-> "Subtask", variants |-> <<"Subtask", "Sub-task", "Di'lc^i' u'kol",
                                            "Podu'kol">>] >>

\* the normalizer comparing the variants as they are written in the table
normalizeIssueTypeExactVariants(localizedType) ==
    LET normalized == toLowerCase(localizedType)
        hits == { i \in 1..Len(issueTypeMap) :
                    \E j \in 1..Len(issueTypeMap[i].variants) :
                        issueTypeMap[i].variants[j] = normalized }
    IN IF hits = {} THEN localizedType
       ELSE issueTypeMap[CHOOSE i \in hits : \A h \in hits : i <= h].standard

\* the loop over Object.entries(issueTypeMap): the first entry with a variant
\* whose lower case equals the lower-cased input, else the input
normalizeIssueType(localizedType) ==
    LET normalized == toLowerCase(localizedType)
        hits == { i \in 1..Len(issueTypeMap) :
                    \E j \in 1..Len(issueTypeMap[i].variants) :
                        toLowerCase(issueTypeMap[i].variants[j]) = normalized }
    IN IF hits = {} THEN localizedType
       ELSE issueTypeMap[CHOOSE i \in hits : \A h \in hits : i <= h].standard

MaxCaseLen == 5

UpperChar(c) ==
    IF \E i \in 1..Len(LowerChars) : LowerChars[i] = c
    THEN UpperChars[CHOOSE i \in 1..Len(LowerChars) : LowerChars[i] = c]
    ELSE c

\* every way of writing s in upper and lower case letters
RECURSIVE CaseVariants(_)
CaseVariants(s) ==
    IF Len(s) = 0 THEN {""}
    ELSE LET c == SubSeq(s, 1, 1)
             rest == CaseVariants(SubSeq(s, 2, Len(s)))
         IN { x \o r : x \in {LowerChar(c), UpperChar(c)}, r \in rest }

AllVariants ==
    UNION { { issueTypeMap[i].variants[j] : j \in 1..Len(issueTypeMap[i].variants) } :
            i \in 1..Len(issueTypeMap) }

\* names handed to the normalizer: the table's names as written, in lower
\* case, the short ones in every mix of cases, and names the table lacks
NormalizerInputs ==
    AllVariants
    \cup { toLowerCase(v) : v \in AllVariants }
    \cup UNION { CaseVariants(v) : v \in { w \in AllVariants : Len(w) <= MaxCaseLen } }
    \cup { "Unrecognized-XYZ", "", "Tasks", "Tas", "task ", "Ukol", "Sub task", "Improvement" }

NmIdle == nmPc = "input" /\ nmInput = "" /\ nmOut = ""

NmInit ==
    /\ nmPc = "input"
    /\ nmInput \in NormalizerInputs
    /\ nmOut = ""

NmNormalize ==
    /\ nmPc = "input"
    /\ nmPc' = "output"
    /\ nmOut' = normalizeIssueType(nmInput)
    /\ UNCHANGED nmInput
    /\ UNCHANGED notNm

-----------------------------------------------------------------------------
(* The batch-comment handler (issue-tools.ts)                               *)

\* number of issue keys in one batch-comment call
MaxBatch == 3

BatchIssueKeys == {"PR-1", "PR-2"}

RECURSIVE KeyLists(_)
KeyLists(n) ==
    IF n = 0 THEN {<<>>}
    ELSE KeyLists(n - 1)
         \cup { Append(ks, k) : ks \in { x \in KeyLists(n - 1) : Len(x) = n - 1 },
                                k \in BatchIssueKeys }

\* how the promise returned by client.addComment can settle
Resolved(result) == [rejected |-> FALSE, result |-> result, message |-> ""]
Rejected(m) == [rejected |-> TRUE, result |-> NoOutcome, message |-> m]

CommentOutcomes ==
    { Resolved(Success(JsonData({"id"}))),
      Resolved(Failure("Issue does not exist")),
      Resolved(Failure("")),
      Rejected("socket hang up") }

Pending == [settled |-> FALSE, issueKey |-> "", success |-> FALSE,
            hasError |-> FALSE, error |-> ""]

\* the object a commentPromise resolves to: the try and the catch branch
ItemResult(issueKey, outcome) ==
    IF outcome.rejected
    THEN [settled |-> TRUE, issueKey |-> issueKey, success |-> FALSE,
          hasError |-> TRUE, error |-> outcome.message]
    ELSE [settled |-> TRUE, issueKey |-> issueKey,
          success |-> outcome.result.success,
          hasError |-> outcome.result.hasError,
          error |-> outcome.result.error]

\* results.filter(r => r.success)
Successful(results) == SelectSeq(results, LAMBDA r : r.success)

\* the failed ones taken to be the results that carry an error text
FailedWithErrorText(results) == SelectSeq(results, LAMBDA r : r.error # "")

\* results.filter(r => !r.success)
Failed(results) == SelectSeq(results, LAMBDA r : ~r.success)

\* the parts of responseText that depend on the results
BatchReply(results, issueKeys) ==
    [set |-> TRUE,
     successful |-> [i \in 1..Len(Successful(results)) |->
                        Successful(results)[i].issueKey],
     failed |-> [i \in 1..Len(Failed(results)) |->
                    Failed(results)[i].issueKey \o ": " \o Failed(results)[i].error],
     summary |-> ToString(Len(Successful(results))) \o "/"
                 \o ToString(Len(issueKeys)) \o " successful"]

NoBatchReply == [set |-> FALSE, successful |-> <<>>, failed |-> <<>>, summary |-> ""]

BcInit ==
    /\ bcPc = "idle"
    /\ bcKeys = <<>>
    /\ bcContinue = TRUE
    /\ bcDispatched = <<>>
    /\ bcSettled = <<>>
    /\ bcReply = NoBatchReply

\* the handler is called: issueKeys.map runs every callback up to its await,
\* so client.addComment is called for every key before any of them settles
BcCall(issueKeys, continueOnError) ==
    /\ bcPc \in {"idle", "done"}
    /\ bcPc' = "awaiting"
    /\ bcKeys' = issueKeys
    /\ bcContinue' = continueOnError
    /\ bcDispatched' = issueKeys
    /\ bcSettled' = [i \in 1..Len(issueKeys) |-> Pending]
    /\ bcReply' = NoBatchReply
    /\ UNCHANGED notBc

\* the addComment promise of position i settles
BcSettle(i, outcome) ==
    /\ bcPc = "awaiting"
    /\ i \in 1..Len(bcKeys)
    /\ ~bcSettled[i].settled
    /\ bcSettled' = [bcSettled EXCEPT ![i] = ItemResult(bcKeys[i], outcome)]
    /\ UNCHANGED <<bcPc, bcKeys, bcContinue, bcDispatched, bcReply>>
    /\ UNCHANGED notBc

\* Promise.all resolves: the results are counted and the reply is built
BcFinish ==
    /\ bcPc = "awaiting"
    /\ \A i \in 1..Len(bcKeys) : bcSettled[i].settled
    /\ bcReply' = BatchReply(bcSettled, bcKeys)
    /\ bcPc' = "done"
    /\ UNCHANGED <<bcKeys, bcContinue, bcDispatched, bcSettled>>
    /\ UNCHANGED notBc

BcNext ==
    \/ \E issueKeys \in KeyLists(MaxBatch), continueOnError \in BOOLEAN :
          BcCall(issueKeys, continueOnError)
    \/ \E i \in 1..MaxBatch, outcome \in CommentOutcomes : BcSettle(i, outcome)
    \/ BcFinish

-----------------------------------------------------------------------------
(* The create-issue handler (issue-tools.ts).  The optional parameters      *)
(* description, assignee, priority, labels, components, parent, dueDate,    *)
(* startDate and originalEstimate are absent in the calls considered.       *)

Unset == ""

\* Config (ConfigSchema): the fields the handler reads
Configs ==
    [fieldStoryPoints : {Unset, "customfield_10001"},
     fieldAcceptanceCriteria : {Unset, "customfield_10002"},
     fieldEpicLink : {Unset, "customfield_10003"},
     defaultProject : {Unset, "PR"},
     autoCreateTestTickets : BOOLEAN,
     autoDetectFields : BOOLEAN]

NoConfig ==
    [fieldStoryPoints |-> Unset, fieldAcceptanceCriteria |-> Unset,
     fieldEpicLink |-> Unset, defaultProject |-> Unset,
     autoCreateTestTickets |-> FALSE, autoDetectFields |-> TRUE]

\* params (CreateIssueSchema); storyPoints: has tells whether it was given
CreateParams ==
    [project : {Unset, "PR"},
     issueType : {"Story", "user story", "Bug"},
     summary : {"Fix login"},
     storyPoints : { [has |-> FALSE, n |-> 0], [has |-> TRUE, n |-> 0],
                     [has |-> TRUE, n |-> 5] },
     acceptanceCriteria : {Unset, "Works"},
     epicLink : {Unset, "PR-10"},
     createTestTicket : {"unset", "true", "false"}]

NoParams ==
    [project |-> Unset, issueType |-> "Bug", summary |-> "Fix login",
     storyPoints |-> [has |-> FALSE, n |-> 0], acceptanceCriteria |-> Unset,
     epicLink |-> Unset, createTestTicket |-> "unset"]

\* customFields of createIssueTools
customFields(config) ==
    [storyPoints |-> config.fieldStoryPoints,
     acceptanceCriteria |-> config.fieldAcceptanceCriteria,
     epicLink |-> config.fieldEpicLink]

\* textToADF for a text of one plain paragraph (the content array is kept
\* as its single text leaf)
textToADF(text) ==
    Obj(<< <<"type", Str("doc")>>, <<"version", Num("1")>>,
           <<"text", Str(text)>> >>)

\* params.project || config.defaultProject
ProjectKeyOf(config, params) ==
    IF params.project # Unset THEN params.project ELSE config.defaultProject

\* payload of the create-issue handler
CreatePayload(config, params) ==
    LET cf == customFields(config)
        base == << <<"project", Obj(<< <<"key", Str(ProjectKeyOf(config, params))>> >>)>>,
                   <<"issuetype", Obj(<< <<"name", Str(params.issueType)>> >>)>>,
                   <<"summary", Str(params.summary)>> >>
        sp == IF params.storyPoints.has /\ params.storyPoints.n # 0
                 /\ cf.storyPoints # Unset
              THEN << <<cf.storyPoints, Num(ToString(params.storyPoints.n))>> >>
              ELSE <<>>
        ac == IF params.acceptanceCriteria # Unset /\ cf.acceptanceCriteria # Unset
              THEN << <<cf.acceptanceCriteria, textToADF(params.acceptanceCriteria)>> >>
              ELSE <<>>
        el == IF params.epicLink # Unset /\ cf.epicLink # Unset
              THEN << <<cf.epicLink, Str(params.epicLink)>> >>
              ELSE <<>>
    IN Obj(<< <<"fields", Obj(base \o sp \o ac \o el)>> >>)

\* testPayload
TestPayload(projectKey, params, issueKey) ==
    Obj(<< <<"fields",
             Obj(<< <<"project", Obj(<< <<"key", Str(projectKey)>> >>)>>,
                    <<"issuetype", Obj(<< <<"name", Str("Test")>> >>)>>,
                    <<"summary", Str("Test: " \o params.summary)>>,
                    <<"description",
                      textToADF("Test ticket for " \o issueKey)>> >>)>> >>)

\* params.createTestTicket || config.autoCreateTestTickets
WantsTestTicketOr(config, params) ==
    params.createTestTicket = "true" \/ config.autoCreateTestTickets

\* params.createTestTicket ?? config.autoCreateTestTickets
WantsTestTicket(config, params) ==
    IF params.createTestTicket = "unset" THEN config.autoCreateTestTickets
    ELSE params.createTestTicket = "true"

\* what client.createIssue / client.linkIssues give back to the handler
Created(key) == [rejected |-> FALSE, success |-> TRUE, hasData |-> TRUE,
                 key |-> key, error |-> ""]
NotCreated(m) == [rejected |-> FALSE, success |-> FALSE, hasData |-> FALSE,
                  key |-> "", error |-> m]
Threw(m) == [rejected |-> TRUE, success |-> FALSE, hasData |-> FALSE,
             key |-> "", error |-> m]

CreateResults ==
    { Created("PR-7"), Created(""),
      NotCreated("customfield_10003: Field cannot be set"),
      NotCreated("fetch failed") }
TestCreateResults == { Created("PR-8"), Created(""), NotCreated("fetch failed"),
                       Threw("boom") }
TestLinkResults == { Created(""), NotCreated("No issue link type"), Threw("boom") }

CiReply(kind, issueKey, notes) == [kind |-> kind, issueKey |-> issueKey, notes |-> notes]
NoCiReply == CiReply("none", "", <<>>)

CiInit ==
    /\ ciPc = "idle"
    /\ ciConfig = NoConfig
    /\ ciParams = NoParams
    /\ ciCreated = <<>>
    /\ ciLinked = <<>>
    /\ ciIssueKey = ""
    /\ ciTestKey = ""
    /\ ciReply = NoCiReply

\* the handler is called: it builds the payload and calls client.createIssue
CiCall(config, params) ==
    /\ ciPc = "idle"
    /\ ciConfig' = config
    /\ ciParams' = params
    /\ ciLinked' = <<>>
    /\ ciIssueKey' = ""
    /\ ciTestKey' = ""
    /\ IF ProjectKeyOf(config, params) = Unset
       THEN /\ ciPc' = "done"
            /\ ciCreated' = <<>>
            /\ ciReply' = CiReply("projectRequired", "", <<>>)
       ELSE /\ ciPc' = "creating"
            /\ ciCreated' = <<CreatePayload(config, params)>>
            /\ ciReply' = NoCiReply
    /\ UNCHANGED notCi

\* client.createIssue(payload) has returned
CiCreateResult(result) ==
    /\ ciPc = "creating"
    /\ IF ~result.success \/ ~result.hasData
       THEN /\ ciPc' = "done"
            /\ ciReply' = CiReply(IF ciParams.epicLink # Unset
                                     /\ Includes(result.error, "customfield_")
                                  THEN "failedEpicLinkHint" ELSE "failed",
                                  "", <<result.error>>)
            /\ UNCHANGED <<ciCreated, ciIssueKey>>
       ELSE IF result.key = ""
       THEN /\ ciPc' = "done"
            /\ ciReply' = CiReply("missingKey", "", <<>>)
            /\ UNCHANGED <<ciCreated, ciIssueKey>>
       ELSE /\ ciIssueKey' = result.key
            /\ ciReply' = CiReply("created", result.key, <<>>)
            /\ IF WantsTestTicket(ciConfig, ciParams)
                  /\ normalizeIssueType(ciParams.issueType) = "Story"
               THEN /\ ciPc' = "testing"
                    /\ ciCreated' = Append(ciCreated,
                          TestPayload(ProjectKeyOf(ciConfig, ciParams),
                                      ciParams, result.key))
               ELSE /\ ciPc' = "done"
                    /\ UNCHANGED ciCreated
    /\ UNCHANGED <<ciConfig, ciParams, ciLinked, ciTestKey>>
    /\ UNCHANGED notCi

\* client.createIssue(testPayload) has returned or thrown
CiTestResult(result) ==
    /\ ciPc = "testing"
    /\ IF result.rejected
       THEN /\ ciPc' = "done"
            /\ ciReply' = [ciReply EXCEPT !.notes =
                              Append(@, "Failed to create test ticket")]
            /\ UNCHANGED <<ciLinked, ciTestKey>>
       ELSE IF result.success /\ result.hasData /\ result.key # ""
       THEN /\ ciPc' = "linking"
            /\ ciTestKey' = result.key
            /\ ciLinked' = Append(ciLinked,
                              <<ciIssueKey, result.key, "Test Case Linking">>)
            /\ ciReply' = [ciReply EXCEPT !.notes =
                              Append(@, "Created test ticket " \o result.key)]
       ELSE /\ ciPc' = "done"
            /\ ciReply' = [ciReply EXCEPT !.notes =
                              Append(@, "Failed to create test ticket: "
                                        \o result.error)]
            /\ UNCHANGED <<ciLinked, ciTestKey>>
    /\ UNCHANGED <<ciConfig, ciParams, ciCreated, ciIssueKey>>
    /\ UNCHANGED notCi

\* client.linkIssues(issueKey, testKey, 'Test Case Linking') has returned
\* or thrown
CiLinkResult(result) ==
    /\ ciPc = "linking"
    /\ ciPc' = "done"
    /\ ciReply' = [ciReply EXCEPT !.notes =
          Append(@, IF result.rejected
                    THEN "Test ticket created but linking failed"
                    ELSE IF result.success
                    THEN "Linked test ticket to story"
                    ELSE "Test ticket created but linking failed: "
                         \o result.error)]
    /\ UNCHANGED <<ciConfig, ciParams, ciCreated, ciLinked, ciIssueKey, ciTestKey>>
    /\ UNCHANGED notCi

\* the reply has been delivered: the handler is ready for its next call
CiFinish ==
    /\ ciPc = "done"
    /\ ciPc' = "idle"
    /\ ciConfig' = NoConfig
    /\ ciParams' = NoParams
    /\ ciCreated' = <<>>
    /\ ciLinked' = <<>>
    /\ ciIssueKey' = ""
    /\ ciTestKey' = ""
    /\ ciReply' = NoCiReply
    /\ UNCHANGED notCi

CiNext ==
    \/ \E config \in Configs, params \in CreateParams : CiCall(config, params)
    \/ \E result \in CreateResults : CiCreateResult(result)
    \/ \E result \in TestCreateResults : CiTestResult(result)
    \/ \E result \in TestLinkResults : CiLinkResult(result)
    \/ CiFinish

-----------------------------------------------------------------------------
(* retry() on its own (retry.ts): any options, any fn                       *)

\* largest maxAttempts among the options considered
MaxPolicyAttempts == 4

\* RetryOptions after destructuring; retry() validates none of them
RetryPolicies ==
    [maxAttempts : 0..MaxPolicyAttempts,
     delayMs : {500, 1000, 20000},
     backoffMultiplier : {1, 2, 3},
     maxDelayMs : {2000, 10000}]

DefaultPolicy ==
    [maxAttempts |-> 3, delayMs |-> 1000, backoffMultiplier |-> 2,
     maxDelayMs |-> 10000]

\* how one call of fn can end: a value, an Error, or a thrown non-Error
FnReturns == [threw |-> FALSE, isError |-> FALSE, message |-> ""]
FnThrows(m) == [threw |-> TRUE, isError |-> TRUE, message |-> m]
FnThrowsValue(v) == [threw |-> TRUE, isError |-> FALSE, message |-> v]

FnOutcomes ==
    { FnReturns, FnThrows("HTTP 404: Not Found"),
      FnThrows("HTTP 503: Service Unavailable"), FnThrows("fetch failed"),
      FnThrowsValue("HTTP 404") }

RtInit ==
    /\ rtPc = "idle"
    /\ rtPolicy = DefaultPolicy
    /\ rtAttempt = 1
    /\ rtDelay = 0
    /\ rtCalls = 0
    /\ rtWaited = <<>>
    /\ rtLastError = ""
    /\ rtThrown = ""

\* retry(fn, options) is called; with maxAttempts < 1 the loop is skipped
RtStart(policy) ==
    /\ rtPc = "idle"
    /\ rtPolicy' = policy
    /\ rtAttempt' = 1
    /\ rtDelay' = policy.delayMs
    /\ rtCalls' = 0
    /\ rtWaited' = <<>>
    /\ rtLastError' = ""
    /\ IF 1 <= policy.maxAttempts
       THEN rtPc' = "attempting" /\ rtThrown' = ""
       ELSE rtPc' = "threw" /\ rtThrown' = "Retry failed"
    /\ UNCHANGED notRt

\* one iteration: await fn(), then the catch block up to the wait
RtAttempt(outcome) ==
    /\ rtPc = "attempting"
    /\ rtCalls' = rtCalls + 1
    /\ IF ~outcome.threw
       THEN rtPc' = "returned" /\ UNCHANGED <<rtLastError, rtThrown>>
       ELSE /\ rtLastError' = outcome.message
            /\ IF outcome.isError /\ Includes(outcome.message, "HTTP 4")
               THEN rtPc' = "threw" /\ rtThrown' = outcome.message
               ELSE IF rtAttempt < rtPolicy.maxAttempts
                    THEN rtPc' = "waiting" /\ UNCHANGED rtThrown
                    ELSE rtPc' = "threw" /\ rtThrown' = outcome.message
    /\ UNCHANGED <<rtPolicy, rtAttempt, rtDelay, rtWaited>>
    /\ UNCHANGED notRt

\* the setTimeout between two attempts, then delay is scaled and attempt++
RtWait ==
    /\ rtPc = "waiting"
    /\ rtWaited' = Append(rtWaited, rtDelay)
    /\ rtDelay' = Min(rtDelay * rtPolicy.backoffMultiplier, rtPolicy.maxDelayMs)
    /\ rtAttempt' = rtAttempt + 1
    /\ rtPc' = "attempting"
    /\ UNCHANGED <<rtPolicy, rtCalls, rtLastError, rtThrown>>
    /\ UNCHANGED notRt

\* retry() has returned or thrown: its locals are gone
RtFinish ==
    /\ rtPc \in {"returned", "threw"}
    /\ rtPc' = "idle"
    /\ rtPolicy' = DefaultPolicy
    /\ rtAttempt' = 1
    /\ rtDelay' = 0
    /\ rtCalls' = 0
    /\ rtWaited' = <<>>
    /\ rtLastError' = ""
    /\ rtThrown' = ""
    /\ UNCHANGED notRt

RtNext ==
    \/ \E policy \in RetryPolicies : RtStart(policy)
    \/ \E outcome \in FnOutcomes : RtAttempt(outcome)
    \/ RtWait
    \/ RtFinish

-----------------------------------------------------------------------------
(* The create-epic-with-subtasks handler (issue-tools.ts).  The optional    *)
(* epicDescription and the description and assignee of a subtask are absent *)
(* in the calls considered.                                                 *)

\* largest number of entries of params.subtasks
MaxSubtasks == 2

SubtaskSummaries == <<"Design", "Build", "Test">>

\* params (CreateEpicWithSubtasksSchema)
EsParamsSet ==
    { [project |-> "PR", epicSummary |-> "Login",
       subtasks |-> [i \in 1..n |-> [summary |-> SubtaskSummaries[i]]]] :
        n \in 0..MaxSubtasks }

NoEsParams == [project |-> "", epicSummary |-> "", subtasks |-> <<>>]

\* config as far as this handler reads it: customFields.epicLink
EsConfigs == { c \in Configs :
                 /\ c.fieldStoryPoints = Unset /\ c.fieldAcceptanceCriteria = Unset
                 /\ c.defaultProject = Unset /\ ~c.autoCreateTestTickets
                 /\ c.autoDetectFields }

\* epicPayload
EpicPayload(params) ==
    Obj(<< <<"fields",
             Obj(<< <<"project", Obj(<< <<"key", Str(params.project)>> >>)>>,
                    <<"issuetype", Obj(<< <<"name", Str("Epic")>> >>)>>,
                    <<"summary", Str(params.epicSummary)>> >>)>> >>)

\* subtaskPayload
SubtaskPayload(params, subtask, epicKey) ==
    Obj(<< <<"fields",
             Obj(<< <<"project", Obj(<< <<"key", Str(params.project)>> >>)>>,
                    <<"issuetype", Obj(<< <<"name", Str("Di'lc^i' u'kol")>> >>)>>,
                    <<"summary", Str(subtask.summary)>>,
                    <<"parent", Obj(<< <<"key", Str(epicKey)>> >>)>> >>)>> >>)

\* storyPayload of the fallback loop
TaskPayload(config, params, subtask, epicKey) ==
    Obj(<< <<"fields",
             Obj(<< <<"project", Obj(<< <<"key", Str(params.project)>> >>)>>,
                    <<"issuetype", Obj(<< <<"name", Str("U'kol")>> >>)>>,
                    <<"summary", Str(subtask.summary)>> >>
                 \o (IF customFields(config).epicLink # Unset
                     THEN << <<customFields(config).epicLink, Str(epicKey)>> >>
                     ELSE <<>>))>> >>)

\* a call of client.createIssue: the entry of params.subtasks it is made for
\* (0 for the epic), the loop that made it and the payload
EsCreateCall(item, loop, payload) == [item |-> item, loop |-> loop, payload |-> payload]

\* result.success && result.data?.key
HasKey(result) ==
    ~result.rejected /\ result.success /\ result.hasData /\ result.key # ""

EpicResults == { Created("PR-20"), Created(""), NotCreated("fetch failed") }
SubtaskResults ==
    { Created("PR-21"), NotCreated("parent: an epic cannot have sub-tasks"),
      NotCreated(""), Threw("boom") }
TaskResults == { Created("PR-31"), NotCreated("fetch failed"), Threw("boom") }

EsReply(kind, detail, fallback, subtasks, tasks, failed) ==
    [kind |-> kind, detail |-> detail, fallback |-> fallback,
     subtasks |-> subtasks, tasks |-> tasks, failed |-> failed]
NoEsReply == EsReply("none", "", FALSE, <<>>, <<>>, <<>>)

\* "Format response": the lists the text is made of
EsFinalReply(epicKey, subtaskResults, createdTasks, failedSubtasks) ==
    EsReply("created", epicKey, failedSubtasks # <<>>, subtaskResults, createdTasks,
            IF failedSubtasks # <<>> /\ createdTasks = <<>>
            THEN failedSubtasks ELSE <<>>)

EsInit ==
    /\ esPc = "idle"
    /\ esConfig = NoConfig
    /\ esParams = NoEsParams
    /\ esEpicKey = ""
    /\ esPos = 0
    /\ esSent = <<>>
    /\ esResults = <<>>
    /\ esSubtaskResults = <<>>
    /\ esFailedSubtasks = <<>>
    /\ esCreatedTasks = <<>>
    /\ esReply = NoEsReply

\* the handler is called: step 1 sends the epic
EsCall(config, params) ==
    /\ esPc = "idle"
    /\ esPc' = "epic"
    /\ esConfig' = config
    /\ esParams' = params
    /\ esSent' = <<EsCreateCall(0, "epic", EpicPayload(params))>>
    /\ UNCHANGED <<esEpicKey, esPos, esResults, esSubtaskResults, esFailedSubtasks, esCreatedTasks, esReply>>
    /\ UNCHANGED notEs

\* client.createIssue(epicPayload) has returned
EsEpicResult(result) ==
    /\ esPc = "epic"
    /\ esResults' = Append(esResults, result)
    /\ IF ~result.success \/ ~result.hasData \/ result.key = ""
       THEN /\ esPc' = "done"
            /\ esReply' = EsReply("epicFailed",
                                  IF result.error # "" THEN result.error
                                  ELSE "Unknown error", FALSE, <<>>, <<>>, <<>>)
            /\ UNCHANGED <<esEpicKey, esPos, esSent>>
       ELSE /\ esEpicKey' = result.key
            /\ IF esParams.subtasks = <<>>
               THEN /\ esPc' = "done"
                    /\ esReply' = EsFinalReply(result.key, <<>>, <<>>, <<>>)
                    /\ UNCHANGED <<esPos, esSent>>
               ELSE /\ esPc' = "subtasks"
                    /\ esPos' = 1
                    /\ esSent' = Append(esSent,
                          EsCreateCall(1, "subtasks",
                              SubtaskPayload(esParams, esParams.subtasks[1], result.key)))
                    /\ UNCHANGED esReply
    /\ UNCHANGED <<esConfig, esParams, esSubtaskResults, esFailedSubtasks, esCreatedTasks>>
    /\ UNCHANGED notEs

\* client.createIssue(subtaskPayload) has returned or thrown: the rest of
\* the iteration, then the next iteration, the first one of the fallback
\* loop, or the reply
EsSubtaskResult(result) ==
    LET subtask == esParams.subtasks[esPos]
        subtaskResults ==
            IF HasKey(result)
            THEN Append(esSubtaskResults, "OK " \o result.key \o ": " \o subtask.summary)
            ELSE esSubtaskResults
        failedSubtasks ==
            IF HasKey(result) THEN esFailedSubtasks
            ELSE Append(esFailedSubtasks,
                        "FAILED \"" \o subtask.summary \o "\": "
                        \o (IF result.rejected \/ result.error # ""
                            THEN result.error ELSE "Unknown error"))
    IN
    /\ esPc = "subtasks"
    /\ esResults' = Append(esResults, result)
    /\ esSubtaskResults' = subtaskResults
    /\ esFailedSubtasks' = failedSubtasks
    /\ IF esPos < Len(esParams.subtasks)
       THEN /\ esPos' = esPos + 1
            /\ esSent' = Append(esSent,
                  EsCreateCall(esPos + 1, "subtasks",
                      SubtaskPayload(esParams, esParams.subtasks[esPos + 1], esEpicKey)))
            /\ UNCHANGED <<esPc, esReply>>
       ELSE IF failedSubtasks # <<>>
       THEN /\ esPc' = "fallback"
            /\ esPos' = 1
            /\ esSent' = Append(esSent,
                  EsCreateCall(1, "fallback",
                      TaskPayload(esConfig, esParams, esParams.subtasks[1], esEpicKey)))
            /\ UNCHANGED esReply
       ELSE /\ esPc' = "done"
            /\ esReply' = EsFinalReply(esEpicKey, subtaskResults, <<>>, failedSubtasks)
            /\ UNCHANGED <<esPos, esSent>>
    /\ UNCHANGED <<esConfig, esParams, esEpicKey, esCreatedTasks>>
    /\ UNCHANGED notEs

\* client.createIssue(storyPayload) has returned or thrown
EsTaskResult(result) ==
    LET subtask == esParams.subtasks[esPos]
        createdTasks ==
            IF HasKey(result)
            THEN Append(esCreatedTasks,
                        "OK " \o result.key \o ": " \o subtask.summary \o " (linked to epic)")
            ELSE esCreatedTasks
    IN
    /\ esPc = "fallback"
    /\ esResults' = Append(esResults, result)
    /\ esCreatedTasks' = createdTasks
    /\ IF esPos < Len(esParams.subtasks)
       THEN /\ esPos' = esPos + 1
            /\ esSent' = Append(esSent,
                  EsCreateCall(esPos + 1, "fallback",
                      TaskPayload(esConfig, esParams, esParams.subtasks[esPos + 1],
                                  esEpicKey)))
            /\ UNCHANGED <<esPc, esReply>>
       ELSE /\ esPc' = "done"
            /\ esReply' = EsFinalReply(esEpicKey, esSubtaskResults, createdTasks,
                                       esFailedSubtasks)
            /\ UNCHANGED <<esPos, esSent>>
    /\ UNCHANGED <<esConfig, esParams, esEpicKey, esSubtaskResults, esFailedSubtasks>>
    /\ UNCHANGED notEs

\* the reply has been delivered: the handler is ready for its next call
EsFinish ==
    /\ esPc = "done"
    /\ esPc' = "idle"
    /\ esConfig' = NoConfig
    /\ esParams' = NoEsParams
    /\ esEpicKey' = ""
    /\ esPos' = 0
    /\ esSent' = <<>>
    /\ esResults' = <<>>
    /\ esSubtaskResults' = <<>>
    /\ esFailedSubtasks' = <<>>
    /\ esCreatedTasks' = <<>>
    /\ esReply' = NoEsReply
    /\ UNCHANGED notEs

EsNext ==
    \/ \E config \in EsConfigs, params \in EsParamsSet : EsCall(config, params)
    \/ \E result \in EpicResults : EsEpicResult(result)
    \/ \E result \in SubtaskResults : EsSubtaskResult(result)
    \/ \E result \in TaskResults : EsTaskResult(result)
    \/ EsFinish

-----------------------------------------------------------------------------
(* The transition-issue handler (issue-tools.ts)                            *)

\* largest number of transitions an issue offers
MaxTransitions == 2

\* JiraTransition
Transition(id, name) == [id |-> id, name |-> name]

TransitionCatalogue ==
    { Transition("11", "In Progress"), Transition("21", "Mark as Done"),
      Transition("31", "Done"), Transition("41", "DONE") }

RECURSIVE TransitionLists(_)
TransitionLists(n) ==
    IF n = 0 THEN {<<>>}
    ELSE LET prev == TransitionLists(n - 1)
         IN prev \cup
            { Append(qt[1], qt[2]) :
                qt \in { x \in prev \X TransitionCatalogue :
                            /\ Len(x[1]) = n - 1
                            /\ \A i \in 1..Len(x[1]) : x[1][i] # x[2] } }

\* results of client.getTransitions: a Failure, a Success without data, a
\* Success whose data has no transitions array, a Success with the array
TransitionsFailed(m) ==
    [success |-> FALSE, hasData |-> FALSE, hasTransitions |-> FALSE,
     transitions |-> <<>>, error |-> m]
TransitionsFetched(hasData, hasTransitions, transitions) ==
    [success |-> TRUE, hasData |-> hasData, hasTransitions |-> hasTransitions,
     transitions |-> transitions, error |-> ""]

TransitionsResults ==
    { TransitionsFailed("Issue does not exist"),
      TransitionsFetched(FALSE, FALSE, <<>>),
      TransitionsFetched(TRUE, FALSE, <<>>) }
    \cup { TransitionsFetched(TRUE, TRUE, l) : l \in TransitionLists(MaxTransitions) }

NoTransitionsResult == TransitionsFailed("")

\* params (TransitionIssueSchema)
TransitionParams ==
    [issueKey : IssueKeys, transitionName : {"done", "In Progress", "mark as done", "Closed"}]
NoTransitionParams == [issueKey |-> "", transitionName |-> ""]

\* results of client.transitionIssue
TransitionPostResults == { LinkOk, LinkFailed("Transition is not valid") }

\* a lookup by t.name.toLowerCase().includes(...)
FindTransitionIncludes(transitions, transitionName) ==
    LET hits == { i \in 1..Len(transitions) :
                    Includes(toLowerCase(transitions[i].name), toLowerCase(transitionName)) }
    IN IF hits = {} THEN 0
       ELSE CHOOSE i \in hits : \A j \in hits : i <= j

\* transitions.find(t => t.name.toLowerCase() === params.transitionName.toLowerCase()):
\* index of the first match, 0 for undefined
FindTransition(transitions, transitionName) ==
    LET hits == { i \in 1..Len(transitions) :
                    toLowerCase(transitions[i].name) = toLowerCase(transitionName) }
    IN IF hits = {} THEN 0
       ELSE CHOOSE i \in hits : \A j \in hits : i <= j

\* transitions.map(t => t.name).join(', ') || 'None'
AvailableTransitions(transitions) ==
    LET available == Join([i \in 1..Len(transitions) |-> transitions[i].name], ", ")
    IN IF available # "" THEN available ELSE "None"

TrInit ==
    /\ trPc = "idle"
    /\ trParams = NoTransitionParams
    /\ trFetches = 0
    /\ trFetched = NoTransitionsResult
    /\ trPosts = <<>>
    /\ trReply = NoReply

\* the handler is called and asks for the transitions of the issue
TrCall(params) ==
    /\ trPc = "idle"
    /\ trPc' = "fetching"
    /\ trParams' = params
    /\ trFetches' = 1
    /\ UNCHANGED <<trFetched, trPosts, trReply>>
    /\ UNCHANGED notTr

\* client.getTransitions has returned: the checks, the lookup and the call
\* of client.transitionIssue
TrFetchResult(transitionsResult) ==
    LET found == FindTransition(transitionsResult.transitions, trParams.transitionName)
    IN
    /\ trPc = "fetching"
    /\ trFetched' = transitionsResult
    /\ IF ~transitionsResult.success \/ ~transitionsResult.hasData
       THEN /\ trPc' = "done"
            /\ trReply' = Reply("fetchFailed", transitionsResult.error)
            /\ UNCHANGED trPosts
       ELSE IF ~transitionsResult.hasTransitions
       THEN /\ trPc' = "done"
            /\ trReply' = Reply("invalidResponse", "")
            /\ UNCHANGED trPosts
       ELSE IF found = 0
       THEN /\ trPc' = "done"
            /\ trReply' = Reply("notFound",
                                AvailableTransitions(transitionsResult.transitions))
            /\ UNCHANGED trPosts
       ELSE /\ trPc' = "posting"
            /\ trPosts' = Append(trPosts,
                  [issueKey |-> trParams.issueKey,
                   transitionId |-> transitionsResult.transitions[found].id,
                   transitionName |-> transitionsResult.transitions[found].name])
            /\ UNCHANGED trReply
    /\ UNCHANGED <<trParams, trFetches>>
    /\ UNCHANGED notTr

\* client.transitionIssue has returned
TrPostResult(result) ==
    /\ trPc = "posting"
    /\ trPc' = "done"
    /\ trReply' = IF ~result.success THEN Reply("failed", result.error)
                  ELSE Reply("transitioned", trPosts[Len(trPosts)].transitionName)
    /\ UNCHANGED <<trParams, trFetches, trFetched, trPosts>>
    /\ UNCHANGED notTr

\* the reply has been delivered: the handler is ready for its next call
TrFinish ==
    /\ trPc = "done"
    /\ trPc' = "idle"
    /\ trParams' = NoTransitionParams
    /\ trFetches' = 0
    /\ trFetched' = NoTransitionsResult
    /\ trPosts' = <<>>
    /\ trReply' = NoReply
    /\ UNCHANGED notTr

TrNext ==
    \/ \E params \in TransitionParams : TrCall(params)
    \/ \E transitionsResult \in TransitionsResults : TrFetchResult(transitionsResult)
    \/ \E result \in TransitionPostResults : TrPostResult(result)
    \/ TrFinish

-----------------------------------------------------------------------------
(* Specifications, one per part of the program                             *)

InitRequest == RqInit /\ FdIdle /\ DtInit /\ LkInit /\ NmIdle /\ BcInit /\ CiInit
    /\ RtInit
    /\ EsInit /\ TrInit
SpecRequest == InitRequest /\ [][RqNext]_vars

\* every fetch settles and every timer fires: an attempt under way and a
\* wait under way are eventually over
\* the calls of one operation: which one is called has no part in the loop
RqNextFair ==
    \/ \E op \in { getIssue(k) : k \in IssueKeys } : RqStart(op)
    \/ RqAttempt
    \/ RqWait
    \/ RqFinish

SpecRequestFair ==
    InitRequest /\ [][RqNextFair]_vars /\ WF_vars(RqAttempt) /\ WF_vars(RqWait)

InitFields == FdInit /\ RqInit /\ DtInit /\ LkInit /\ NmIdle /\ BcInit /\ CiInit
    /\ RtInit
    /\ EsInit /\ TrInit
NextFields == FdDetect
SpecFields == InitFields /\ [][NextFields]_vars

InitDetect == DtInit /\ RqInit /\ FdIdle /\ LkInit /\ NmIdle /\ BcInit /\ CiInit
    /\ RtInit
    /\ EsInit /\ TrInit
SpecDetect == InitDetect /\ [][DtNext]_vars

InitLink == LkInit /\ RqInit /\ FdIdle /\ DtInit /\ NmIdle /\ BcInit /\ CiInit
    /\ RtInit
    /\ EsInit /\ TrInit
SpecLink == InitLink /\ [][LkNext]_vars

InitBatch ==
    BcInit /\ RqInit /\ FdIdle /\ DtInit /\ LkInit /\ NmIdle /\ CiInit
    /\ RtInit
    /\ EsInit /\ TrInit
SpecBatch == InitBatch /\ [][BcNext]_vars

InitCreate ==
    CiInit /\ RqInit /\ FdIdle /\ DtInit /\ LkInit /\ NmIdle /\ BcInit
    /\ RtInit
    /\ EsInit /\ TrInit
SpecCreate == InitCreate /\ [][CiNext]_vars

InitRetry ==
    RtInit /\ RqInit /\ FdIdle /\ DtInit /\ LkInit /\ NmIdle /\ BcInit
    /\ CiInit
    /\ EsInit /\ TrInit
SpecRetry == InitRetry /\ [][RtNext]_vars

InitNormalize == NmInit /\ RqInit /\ FdIdle /\ DtInit /\ LkInit /\ BcInit /\ CiInit
    /\ RtInit
    /\ EsInit /\ TrInit
NextNormalize == NmNormalize
SpecNormalize == InitNormalize /\ [][NextNormalize]_vars

InitEpic ==
    EsInit /\ RqInit /\ FdIdle /\ DtInit /\ LkInit /\ NmIdle /\ BcInit /\ CiInit
    /\ RtInit /\ TrInit
SpecEpic == InitEpic /\ [][EsNext]_vars

InitTransition ==
    TrInit /\ RqInit /\ FdIdle /\ DtInit /\ LkInit /\ NmIdle /\ BcInit /\ CiInit
    /\ RtInit /\ EsInit
SpecTransition == InitTransition /\ [][TrNext]_vars

-----------------------------------------------------------------------------
(* Properties of JiraClient.request                                        *)

Is4xx(seen) == seen.kind = "http" /\ seen.status >= 400 /\ seen.status <= 499
IsTransient(seen) == seen.kind = "network" \/ (seen.kind = "http" /\ seen.status >= 500)

\* C1: an attempt that receives a 4xx response, whatever its body, is the
\* last attempt of the request: the request is finished with a Failure, and
\* when it was the first attempt exactly one HTTP call was made.
C1_ClientErrorNeverRetried ==
    \A i \in 1..Len(rqHistory) :
        Is4xx(rqHistory[i]) =>
            /\ i = Len(rqHistory)
            /\ rqPc = "done"
            /\ rqOutcome.set /\ ~rqOutcome.success
            /\ (i = 1 => rqCalls = 1)

\* C2: a request whose attempts so far all failed with a status >= 500 or a
\* network exception goes on retrying while attempts remain, never makes more
\* than maxAttempts attempts, and returns a Failure once they are exhausted.
C2_TransientRetriedUntilExhausted ==
    /\ rqCalls <= maxAttempts
    /\ (rqHistory # <<>> /\ \A i \in 1..Len(rqHistory) : IsTransient(rqHistory[i])) =>
          IF Len(rqHistory) < maxAttempts
          THEN rqPc \in {"waiting", "attempting"} /\ ~rqOutcome.set
          ELSE rqPc = "done" /\ rqOutcome.set /\ ~rqOutcome.success

EmptyBodied(res) ==
    /\ res.kind = "http" /\ ResOk(res)
    /\ (res.contentType = "" \/ res.contentLength = "0" \/ res.status = 204)

\* C3: a 2xx response with no content-type, a content-length of 0 or status
\* 204 ends the request at once with Success and an empty payload.
C3_EmptyBodyIsSuccess ==
    (rqCalls > 0 /\ EmptyBodied(rqLast)) =>
        rqPc = "done" /\ rqOutcome = Success(EmptyPayload)

C3_Witness ==
    /\ rqPc = "done" /\ rqCalls = 2
    /\ rqLast.kind = "http" /\ rqLast.status = 200
    /\ rqLast.contentLength = "0" /\ rqLast.contentType # ""
    /\ rqLast.parses /\ rqLast.json = JsonData({"id", "key"})
    /\ rqOutcome = Success(EmptyPayload)

UnparsableJson(res) ==
    /\ res.kind = "http" /\ ResOk(res)
    /\ Includes(res.contentType, "application/json")
    /\ ~res.parses

\* C4: a 2xx response with a JSON content-type and a body that does not parse
\* ends the request at once with Success and an empty payload: no retry, no
\* Failure, nothing thrown.
C4_UnparsableJsonIsSuccess ==
    (rqCalls > 0 /\ UnparsableJson(rqLast)) =>
        rqPc = "done" /\ rqOutcome = Success(EmptyPayload)

C4_Witness ==
    /\ rqPc = "done" /\ rqCalls = 1
    /\ UnparsableJson(rqLast)
    /\ rqLast.status = 200 /\ rqLast.contentLength = "57"
    /\ rqOutcome = Success(EmptyPayload)
-----------------------------------------------------------------------------
(* Properties of FieldDetector                                             *)

\* C5: two detectFields calls for one scope with no clearCache between them
\* query the create-metadata endpoint at most once, whether they overlap or
\* not and whatever the first fetch returned.
C5_AtMostOneQuery ==
    \A k \in CacheKeys : dtStats[k].queries <= 1

\* C5 (amended): once a detectFields call has stored its result for a scope,
\* no later call for that scope queries the endpoint before a clearCache.
C5_NoQueryAfterStoredResult ==
    \A k \in CacheKeys : dtStats[k].lateQueries = 0

C5_Witness ==
    \E k \in CacheKeys :
        /\ dtStats[k].stored /\ dtStats[k].queries = 1 /\ dtStats[k].hits = 2
        /\ k \in DOMAIN fieldCache /\ fieldCache[k] = EmptyMap

\* the issue types of the fetched document the call looks at
FetchedIssueTypes ==
    IF fdResult.kind = "data" /\ fdResult.projects # <<>>
    THEN LET its == fdResult.projects[1].issuetypes
         IN { its[i] : i \in 1..Len(its) }
    ELSE {}

MatchedIssueTypes ==
    { it \in FetchedIssueTypes :
        fdIssueType = "" \/ toLowerCase(it.name) = toLowerCase(fdIssueType) }

FieldsOf(issueTypes) ==
    UNION { { it.fields[i] : i \in 1..Len(it.fields) } : it \in issueTypes }

StoryPointsNames == {"Story Points", "Bodove' ohodnoceni'"}

\* the roles one of whose patterns hits the name, for the names in use
RolesHitBy ==
    [n \in FieldNames \cup {""} |->
        { fieldPatterns[i].role : i \in
            { j \in 1..Len(fieldPatterns) :
                \E q \in 1..Len(fieldPatterns[j].patterns) :
                    RegexTest(fieldPatterns[j].patterns[q], n) } }]

HitsRole(name, role) == role \in RolesHitBy[name]

\* C6: whenever the fetched document has a field named "Story Points" (or
\* the Czech synonym), whatever else it holds, the returned map has that
\* field's identifier under storyPoints.
C6_StoryPointsAlwaysResolved ==
    fdPc = "output" =>
        \A f \in FieldsOf(FetchedIssueTypes) :
            (f.nameIsString /\ f.name \in StoryPointsNames) =>
                /\ "storyPoints" \in DOMAIN fdOut.fields
                /\ fdOut.fields["storyPoints"] = f.id

\* C6 (amended): the returned map has the identifier of the field named
\* "Story Points" (or the synonym) under storyPoints when that field belongs
\* to an issue type the call looks at, all names there are strings, and no
\* other field definition there has the same identifier or a name that hits a
\* storyPoints pattern.
C6_OnlyStoryPointsFieldResolved ==
    fdPc = "output" =>
        \A f \in FieldsOf(MatchedIssueTypes) :
            ( /\ f.nameIsString /\ f.name \in StoryPointsNames
              /\ \A g \in FieldsOf(MatchedIssueTypes) :
                    /\ g.nameIsString
                    /\ g # f => (g.id # f.id /\ ~HitsRole(g.name, "storyPoints")) )
            => /\ "storyPoints" \in DOMAIN fdOut.fields
               /\ fdOut.fields["storyPoints"] = f.id

C6_Witness ==
    /\ fdPc = "output" /\ fdIssueType = "bug"
    /\ fdResult = MetaData(<<Project(TRUE,
          <<IssueTypeMeta("Bug", <<Field("cf_57", "Epic Link"),
                                   Field("cf_56", "Bodove' ohodnoceni'")>>),
            IssueTypeMeta("Story", <<Field("cf_55", "Story Points")>>)>>)>>)
    /\ fdOut.fields = [storyPoints |-> "cf_56", epicLink |-> "cf_57"]

\* C7: a role none of whose patterns hits the name of any field of the
\* fetched document is absent from the returned map, and nothing is raised.
C7_UnmatchedRoleAbsent ==
    fdPc = "output" =>
        /\ ~fdOut.raised
        /\ \A role \in Roles :
              (\A f \in FieldsOf(FetchedIssueTypes) :
                    ~(f.nameIsString /\ HitsRole(f.name, role)))
              => role \notin DOMAIN fdOut.fields

C7_Witness ==
    /\ fdPc = "output" /\ fdIssueType = ""
    /\ fdResult = MetaData(<<Project(TRUE,
          <<IssueTypeMeta("Story", <<Field("cf_55", "Story Points"),
                                     Field("cf_56", "Summary")>>)>>)>>)
    /\ DOMAIN fdOut.fields = {"storyPoints"}

RetrievalFailed ==
    \/ fdResult.kind # "data"
    \/ fdResult.projects = <<>>
    \/ ~fdResult.projects[1].hasIssueTypes
    \/ MatchedIssueTypes = {}
    \/ DetectBody(fdResult, fdIssueType).raised

\* C8: when the metadata retrieval fails (a Failure, no data, no project, no
\* matching issue type, an exception while processing) detectFields returns
\* the empty map and raises nothing.
C8_FailureGivesEmptyMap ==
    (fdPc = "output" /\ RetrievalFailed) =>
        ~fdOut.raised /\ fdOut.fields = EmptyMap

C8_Witness ==
    /\ fdPc = "output"
    /\ DetectBody(fdResult, fdIssueType).raised
    /\ fdIssueType = "Story"
    /\ ~fdOut.raised /\ fdOut.fields = EmptyMap
-----------------------------------------------------------------------------
(* Properties of the link-issues handler and of normalizeIssueType         *)

EqualsIgnoringCase(a, b) ==
    /\ Len(a) = Len(b)
    /\ \A i \in 1..Len(a) : UpperChar(SubSeq(a, i, i)) = UpperChar(SubSeq(b, i, i))

EntryMatches(lt, linkType) ==
    \/ EqualsIgnoringCase(lt.name, linkType)
    \/ EqualsIgnoringCase(lt.inward, linkType)
    \/ EqualsIgnoringCase(lt.outward, linkType)

MatchingEntries == { i \in 1..Len(lkTypes) : EntryMatches(lkTypes[i], lkType) }

\* the literal attempt failed on the link type and the metadata was fetched
FallbackRan ==
    /\ lkPc \in {"relinking", "done"}
    /\ lkFetches = 1
    /\ lkCalls # <<>> /\ lkCalls[1] = lkType

\* C9: when the literal attempt failed on the link type and the fetched
\* metadata has an entry whose name, inward or outward phrase equals the
\* requested type case-insensitively, a second link attempt is sent with the
\* canonical name of the (first) such entry, and if it succeeds the handler
\* reports success.
C9_RetryUsesCanonicalName ==
    (FallbackRan /\ MatchingEntries # {}) =>
        /\ Len(lkCalls) = 2
        /\ \E i \in MatchingEntries :
              /\ \A j \in MatchingEntries : i <= j
              /\ lkCalls[2] = lkTypes[i].name
        /\ (lkPc = "done" /\ lkResult.success) => lkReply.kind = "linked"

C9_Witness ==
    /\ lkPc = "done" /\ lkType = "is blocked by"
    /\ lkCalls = <<"is blocked by", "Blocks">>
    /\ lkFetches = 1
    /\ lkTypes = <<LinkType("Relates", "relates to", "relates to"),
                   LinkType("Blocks", "is blocked by", "blocks")>>
    /\ lkResult = LinkOk /\ lkReply.kind = "linked"

\* the canonical names having a synonym equal to the name, ignoring case
CanonicalsOf(name) ==
    { issueTypeMap[i].standard : i \in
        { h \in 1..Len(issueTypeMap) :
            \E j \in 1..Len(issueTypeMap[h].variants) :
                EqualsIgnoringCase(issueTypeMap[h].variants[j], name) } }

\* C10: normalizeIssueType returns the canonical name of the table entry
\* that lists the input, compared case-insensitively, among its synonyms,
\* and the input itself when no entry does.
C10_NormalizeAgreesWithTable ==
    nmPc = "output" =>
        IF CanonicalsOf(nmInput) = {}
        THEN nmOut = nmInput
        ELSE CanonicalsOf(nmInput) = {nmOut}

C10_Witness ==
    /\ nmPc = "output" /\ nmInput = "u'KoL" /\ nmOut = "Task"
-----------------------------------------------------------------------------
(* Properties of the JiraClient operations                                  *)

\* Reading a JSON text as the remote API does: strings without escapes,
\* unsigned numbers and objects.  Each operator returns the value read and
\* the position after it.
CharAt(s, i) == IF i <= Len(s) THEN SubSeq(s, i, i) ELSE ""

RECURSIVE ScanWhile(_, _, _)
ScanWhile(s, i, chars) ==
    IF CharAt(s, i) \in chars THEN ScanWhile(s, i + 1, chars) ELSE i

Digits == {"0", "1", "2", "3", "4", "5", "6", "7", "8", "9"}

RECURSIVE ScanString(_, _)
ScanString(s, i) ==
    IF i > Len(s) \/ CharAt(s, i) = "\"" THEN i ELSE ScanString(s, i + 1)

ParseString(s, i) ==
    LET j == ScanString(s, i + 1)
    IN [v |-> Str(SubSeq(s, i + 1, j - 1)), next |-> j + 1]

RECURSIVE ParseValue(_, _)
RECURSIVE ParseMembers(_, _, _)
ParseMembers(s, i, acc) ==
    LET key == ParseString(s, i)
        val == ParseValue(s, key.next + 1)
        members == Append(acc, <<key.v.s, val.v>>)
    IN IF CharAt(s, val.next) = ","
       THEN ParseMembers(s, val.next + 1, members)
       ELSE [v |-> Obj(members), next |-> val.next + 1]

ParseValue(s, i) ==
    IF CharAt(s, i) = "\"" THEN ParseString(s, i)
    ELSE IF CharAt(s, i) = "{"
         THEN IF CharAt(s, i + 1) = "}"
              THEN [v |-> Obj(<<>>), next |-> i + 2]
              ELSE ParseMembers(s, i + 1, <<>>)
    ELSE LET j == ScanWhile(s, i, Digits)
         IN [v |-> Num(SubSeq(s, i, j - 1)), next |-> j]

ParseJson(s) == ParseValue(s, 1).v

\* what the remote API reads from each body the operations can send
BodiesRead ==
    [b \in { FetchOptions(op).body : op \in Operations } |->
        IF b = "" THEN Undefined ELSE ParseJson(b)]

IsCreateOrUpdate == rqOp.name \in {"createIssue", "updateIssue"}

\* C11: every fetch of a createIssue or updateIssue call carries a body,
\* and the object the remote API reads from that body is the caller's
\* payload: the same keys with the same values in the same order, on the
\* first attempt and on every retry.
C11_PayloadPassedThrough ==
    IsCreateOrUpdate =>
        /\ rqOp.payload \in Payloads
        /\ Len(rqSent) = rqCalls
        /\ \A i \in 1..Len(rqSent) :
              /\ rqSent[i].hasBody
              /\ rqSent[i].body \in DOMAIN BodiesRead
              /\ BodiesRead[rqSent[i].body] = rqOp.payload

\* a payload with the unknown custom field cf_55 has been sent three times
C11_Witness ==
    /\ rqOp.name = "createIssue" /\ rqPc = "done" /\ Len(rqSent) = 3
    /\ \E j \in 1..Len(rqOp.payload.m[1][2].m) :
          rqOp.payload.m[1][2].m[j][1] = "cf_55"
    /\ Includes(rqSent[3].body, "\"cf_55\":\"PROJ-10\"")

\* C13: when request() ends with a Failure carrying message m, the
\* operation that called it returns success = false with that same m to its
\* caller, whichever operation it is: no Failure becomes a Success and no
\* message is lost on the way.
C13_FailureReachesCaller ==
    (rqPc = "done" /\ ~rqOutcome.success) =>
        /\ rqOutcome = Failure(rqLastError)
        /\ rqReturn.set /\ ~rqReturn.success
        /\ rqReturn.hasError /\ rqReturn.error = rqOutcome.error
        /\ ~rqReturn.hasData

\* getAttachments, which rebuilds the result, after three failed attempts
C13_Witness ==
    /\ rqPc = "done" /\ rqOp.name = "getAttachments" /\ rqCalls = 3
    /\ rqOutcome = Failure("fetch failed")
    /\ rqReturn = Failure("fetch failed")

C17_RequestTerminates ==
    /\ (rqPc = "attempting") ~> (rqPc = "done")
    /\ [](rqCalls <= maxAttempts)
    /\ [](rqPc = "done" => rqOutcome.set /\ rqReturn.set)
    /\ [][rqPc = "idle" => rqPc' = "attempting" /\ rqCalls' = 0]_vars
    /\ [][rqPc = "done" => rqPc' = "idle"]_vars
    /\ [][(rqPc = "attempting" /\ rqOutcome'.set /\ rqOutcome'.success)
             => rqPc' = "done"]_vars

\* a call that succeeded on its third and last attempt
C17_Witness ==
    /\ rqPc = "done" /\ rqCalls = 3 /\ Len(rqWaited) = 2
    /\ rqOutcome.success /\ rqLast.status = 201

\* attempt i of the current call failed / was followed by a wait and a
\* further attempt
FailedAttempt(i) == rqHistory[i].kind = "network" \/ rqHistory[i].status >= 300
Retried(i) == i < Len(rqHistory) \/ (i = Len(rqHistory) /\ rqPc = "waiting")

\* C18: whether a failed attempt is retried depends on its status code
\* alone.  Two failed attempts of a call that have the same status (or are
\* both network failures) and both have attempts left get the same
\* decision, whatever their bodies; and the decision is: not retried for a
\* 4xx, retried for anything else.
C18_DecisionByStatusAlone ==
    /\ \A i, j \in 1..Len(rqHistory) :
          (i < j /\ j < maxAttempts /\ rqHistory[i] = rqHistory[j]
             /\ FailedAttempt(i) /\ FailedAttempt(j))
          => (Retried(i) <=> Retried(j))
    /\ \A i \in 1..Len(rqHistory) :
          (i < maxAttempts /\ FailedAttempt(i))
          => (Retried(i) <=> ~Is4xx(rqHistory[i]))

\* the first source of a message a non-2xx response offers, in the order
\* errorMessages, errors, message, status line; a list or map with no
\* entry and an empty message offer nothing
FirstAvailableMessage(res) ==
    IF Includes(res.contentType, "application/json") /\ res.parses
       /\ res.json.kind = "object"
    THEN IF res.json.hasEM /\ res.json.em # <<>>
         THEN Join(res.json.em, ", ")
         ELSE IF res.json.hasErrors /\ res.json.errors # <<>>
         THEN Join(FlattenErrors(res.json.errors), ", ")
         ELSE IF res.json.message # "" THEN res.json.message
         ELSE StatusLine(res)
    ELSE StatusLine(res)

NonOkResponse(res) == res.kind = "http" /\ ~ResOk(res)

\* C19: the message of the error raised for a non-2xx response is the first
\* available of: the errorMessages list joined, the errors map flattened to
\* "field: message" pairs, the message field, the HTTP status line (which a
\* body that is not JSON may follow).
C19_MessageFromFirstAvailableSource ==
    (rqCalls > 0 /\ NonOkResponse(rqLast)) =>
        IF Includes(rqLast.contentType, "application/json")
        THEN rqLastError = FirstAvailableMessage(rqLast)
        ELSE StartsWith(rqLastError, StatusLine(rqLast))

-----------------------------------------------------------------------------
(* Properties of the batch-comment handler                                  *)

\* number of positions of keys that hold k
Occurrences(keys, k) == Cardinality({ i \in 1..Len(keys) : keys[i] = k })

-----------------------------------------------------------------------------
(* Properties of the create-issue handler                                   *)

\* create metadata of the project the issue is created in
RemoteMeta ==
    MetaData(<<Project(TRUE,
        <<IssueTypeMeta("Story", <<Field("cf_55", "Story Points"),
                                   Field("cf_56", "Epic Link")>>)>>)>>)

\* the identifiers field detection finds for that project
AutoDetected == DetectOutcome(RemoteMeta, "").fields

FieldsSent(payload) == payload.m[1][2].m
HasMember(members, k, v) == \E i \in 1..Len(members) : members[i] = <<k, v>>

NothingConfigured(config) ==
    /\ config.fieldStoryPoints = Unset
    /\ config.fieldAcceptanceCriteria = Unset
    /\ config.fieldEpicLink = Unset

\* C14: when no custom field identifier is configured and autoDetectFields
\* is on, the payload the create-issue handler hands to client.createIssue
\* carries a supplied storyPoints value under the identifier detected for
\* "Story Points" in the project's metadata, and a supplied epicLink under
\* the identifier detected for "Epic Link".
C14_AutoDetectedFieldSent ==
    (ciPc = "creating" /\ NothingConfigured(ciConfig) /\ ciConfig.autoDetectFields) =>
        /\ (ciParams.storyPoints.has /\ ciParams.storyPoints.n # 0) =>
              /\ "storyPoints" \in DOMAIN AutoDetected
              /\ HasMember(FieldsSent(ciCreated[1]), AutoDetected["storyPoints"],
                           Num(ToString(ciParams.storyPoints.n)))
        /\ ciParams.epicLink # Unset =>
              /\ "epicLink" \in DOMAIN AutoDetected
              /\ HasMember(FieldsSent(ciCreated[1]), AutoDetected["epicLink"],
                           Str(ciParams.epicLink))

-----------------------------------------------------------------------------
(* Properties of retry()                                                    *)

UnionOrder ==
    IF fdResult.kind = "data" /\ fdResult.projects # <<>>
    THEN LET its == fdResult.projects[1].issuetypes
         IN UnionFields(ConcatFields(IF fdIssueType # ""
                                     THEN FilterIssueTypes(its, fdIssueType)
                                     ELSE its), <<>>)
    ELSE <<>>

\* positions in that order of the fields whose name hits a pattern of role
HitPositions(role) ==
    { i \in 1..Len(UnionOrder) :
        UnionOrder[i].nameIsString /\ HitsRole(UnionOrder[i].name, role) }

SmallestOf(S) == CHOOSE x \in S : \A y \in S : x <= y
LargestOf(S) == CHOOSE x \in S : \A y \in S : y <= x

MatchedPositions ==
    IF fdResult.kind = "data" /\ fdResult.projects # <<>>
    THEN LET its == fdResult.projects[1].issuetypes
         IN { i \in 1..Len(its) :
                fdIssueType = "" \/ toLowerCase(its[i].name) = toLowerCase(fdIssueType) }
    ELSE {}

\* the matched issue types that define the field id
DefinedIn(id) ==
    LET its == fdResult.projects[1].issuetypes
    IN { i \in MatchedPositions : \E j \in 1..Len(its[i].fields) : its[i].fields[j].id = id }

\* the definition of id in issue type i
DefinitionIn(i, id) ==
    LET fs == fdResult.projects[1].issuetypes[i].fields
    IN fs[CHOOSE j \in 1..Len(fs) : fs[j].id = id]

\* C21: allFields holds one definition for every field id of the matched
\* issue types (all of them, or those named like the requested type without
\* regard to case) and no other; the definition kept for an id is the one of
\* the first matched issue type that has it.
C21_UnionFirstSeenWins ==
    (fdPc = "output" /\ MatchedPositions # {}) =>
        /\ \A i, j \in 1..Len(fdAllFields) :
              fdAllFields[i].id = fdAllFields[j].id => i = j
        /\ { fdAllFields[i].id : i \in 1..Len(fdAllFields) }
              = { id \in FieldIds : DefinedIn(id) # {} }
        /\ \A i \in 1..Len(fdAllFields) :
              fdAllFields[i]
                = DefinitionIn(SmallestOf(DefinedIn(fdAllFields[i].id)), fdAllFields[i].id)

\* two issue types define cf_55 differently: the first definition is kept
C21_Witness ==
    /\ fdPc = "output" /\ fdIssueType = ""
    /\ fdResult = MetaData(<<Project(TRUE,
          <<IssueTypeMeta("Story", <<Field("cf_55", "Story Points"),
                                     Field("cf_56", "Summary")>>),
            IssueTypeMeta("Bug", <<Field("cf_55", "Epic Link")>>)>>)>>)
    /\ fdAllFields = <<Field("cf_55", "Story Points"), Field("cf_56", "Summary")>>

\* C22: one link-issues operation calls client.linkIssues at most twice,
\* first with the literal type; it fetches the link types at most once, and
\* only when the literal attempt has just failed; the second call comes only
\* out of that fetch; a failed second call ends the operation with a
\* failure reply carrying its error, with no further call or fetch.
C22_FallbackRetriesOnce ==
    /\ [](/\ Len(lkCalls) <= 2
          /\ lkFetches <= 1
          /\ (lkCalls # <<>> => lkCalls[1] = lkType)
          /\ (Len(lkCalls) = 2 => lkFetches = 1))
    /\ [][/\ lkFetches' > lkFetches =>
                (lkPc = "linking" /\ Len(lkCalls) = 1 /\ ~lkResult'.success)
          /\ (Len(lkCalls') = 2 /\ Len(lkCalls) = 1) => lkPc = "fetching"
          /\ (lkPc = "relinking" /\ ~lkResult'.success) =>
                /\ lkPc' = "done"
                /\ lkReply' = Reply("failed", lkResult'.error)
                /\ lkCalls' = lkCalls /\ lkFetches' = lkFetches
          /\ (lkPc = "done" /\ lkPc' # "done") => Len(lkCalls') = 1 /\ lkFetches' = 0
         ]_vars

\* the retry with the canonical name failed as well
C22_Witness ==
    /\ lkPc = "done" /\ lkType = "is blocked by"
    /\ lkCalls = <<"is blocked by", "Blocks">>
    /\ lkFetches = 1
    /\ lkResult = LinkFailed("No issue link type with name 'x' found.")
    /\ lkReply = Reply("failed", "No issue link type with name 'x' found.")

\* C23: when the literal attempt failed on the link type, the link types
\* were fetched, the list is not empty and none of its entries equals the
\* requested type case-insensitively on name, inward or outward phrase, the
\* operation ends without a second link attempt, with an error reply that
\* names every available link type with its two phrases.
C23_NoMatchListsAvailableTypes ==
    (FallbackRan /\ lkTypes # <<>> /\ MatchingEntries = {}) =>
        /\ lkPc = "done"
        /\ lkCalls = <<lkType>>
        /\ lkReply.kind = "notFound"
        /\ \A i \in 1..Len(lkTypes) :
              Includes(lkReply.detail,
                       "\"" \o lkTypes[i].name \o "\" (" \o lkTypes[i].inward
                            \o "/" \o lkTypes[i].outward \o ")")

C23_Witness ==
    /\ lkPc = "done" /\ lkType = "Clones"
    /\ lkCalls = <<"Clones">> /\ lkFetches = 1
    /\ lkTypes = <<LinkType("Blocks", "is blocked by", "blocks"),
                   LinkType("Relates", "relates to", "relates to")>>
    /\ lkReply = Reply("notFound",
          "\"Blocks\" (is blocked by/blocks), \"Relates\" (relates to/relates to)")

\* C24: retry treats a POST as any other method.  In a call that sends a
\* POST (create-issue, transition, comment, link), an attempt with attempts
\* left that ended in a network exception or a 5xx answer, which the server
\* may have processed, is followed by another attempt, and that attempt sends
\* the same method and body again.
C24_PostResentAfterTransientFailure ==
    rqOp.method = "POST" =>
        \A i \in 1..Len(rqHistory) :
            (i < maxAttempts /\ IsTransient(rqHistory[i])) =>
                /\ (i = Len(rqHistory) => rqPc \in {"waiting", "attempting"})
                /\ (i < Len(rqHistory) => rqSent[i + 1] = rqSent[i])

\* the toggle in force: the argument when given, else the configured setting
EffectiveToggle ==
    IF ciParams.createTestTicket # "unset"
    THEN ciParams.createTestTicket = "true"
    ELSE ciConfig.autoCreateTestTickets

\* a second client.createIssue call was made, for an issue of type Test
TestTicketAttempted ==
    /\ Len(ciCreated) = 2
    /\ HasMember(FieldsSent(ciCreated[2]), "issuetype", Obj(<< <<"name", Str("Test")>> >>))

\* C25: once the main create call is over, the test ticket was attempted
\* exactly when the main issue came back with a key, the toggle in force is
\* true and the requested type has the canonical name Story; and a link call
\* was made only after the test ticket came back with a key, between the
\* story and that ticket.
C25_TestTicketIffStoryCreatedAndToggle ==
    /\ ciPc \in {"idle", "creating"} => Len(ciCreated) <= 1 /\ ciLinked = <<>>
    /\ ciPc \in {"testing", "linking", "done"} =>
          /\ Len(ciCreated) <= 2
          /\ TestTicketAttempted
                <=> /\ ciIssueKey # ""
                    /\ EffectiveToggle
                    /\ CanonicalsOf(ciParams.issueType) = {"Story"}
    /\ ciPc = "testing" => ciLinked = <<>>
    /\ ciLinked # <<>> =>
          /\ TestTicketAttempted
          /\ ciTestKey # ""
          /\ ciLinked = << <<ciIssueKey, ciTestKey, "Test Case Linking">> >>

\* a lower-case synonym of Story with the argument overriding the setting
C25_Witness ==
    /\ ciPc = "done"
    /\ ciParams.issueType = "user story"
    /\ ciParams.createTestTicket = "true" /\ ~ciConfig.autoCreateTestTickets
    /\ ciIssueKey = "PR-7" /\ ciTestKey = "PR-8"
    /\ TestTicketAttempted
    /\ ciLinked = << <<"PR-7", "PR-8", "Test Case Linking">> >>

\* C26: a detectFields call that was awaiting its metadata when clearCache
\* ran for its scope (the whole cache, or its project) does not store
\* anything in the cache when it resumes: what the cache holds for a cleared
\* scope was fetched after the clear.
C26_NoStoreByOverrunCall ==
    [][\A c \in Callers :
          (dtPc[c] = "awaiting" /\ dtOverrun[c] /\ dtPc'[c] = "idle")
             => fieldCache' = fieldCache]_vars

\* the cache keys of a project: its issue types and 'all'
KeysOfProject(projectKey) == { CacheKey(projectKey, t) : t \in ScopeIssueTypes }

\* C27: clearCache(projectKey) leaves in the cache exactly the entries of
\* the other projects, unchanged, also those of a project whose key begins
\* with projectKey; clearCache() leaves no entry.
C27_ClearProjectRemovesExactlyItsKeys ==
    [][/\ \A p \in ProjectKeys :
             DtClearProject(p) =>
                fieldCache' = [k \in DOMAIN fieldCache \ KeysOfProject(p) |-> fieldCache[k]]
       /\ DtClearAll => DOMAIN fieldCache' = {}]_vars

\* C28: a request that ends on a non-2xx response returns a Failure whose
\* message is not empty, whatever the JSON error body holds: when the body
\* offers no text the message is the HTTP status line.
C28_FailureMessageNeverEmpty ==
    (rqPc = "done" /\ rqCalls > 0 /\ NonOkResponse(rqLast)) =>
        /\ rqOutcome.set /\ ~rqOutcome.success
        /\ rqOutcome.hasError
        /\ rqOutcome.error # ""
        /\ (rqLast.parses /\ rqLast.json.kind = "object" /\ rqLast.json.em = <<>>
              /\ rqLast.json.errors = <<>> /\ rqLast.json.message = "")
             => rqOutcome.error = StatusLine(rqLast)

\* the calls of client.createIssue made for entry i of params.subtasks that
\* came back with the key of a new issue
IssuesCreatedFor(i) ==
    { j \in 1..Len(esResults) : esSent[j].item = i /\ HasKey(esResults[j]) }

\* C29: for every entry of params.subtasks at most one issue is created:
\* the subtask or, when that failed, one fallback task; no task is created
\* for an entry whose subtask was created.
C29_AtMostOneIssuePerSubtask ==
    \A i \in 1..Len(esParams.subtasks) :
        /\ Cardinality(IssuesCreatedFor(i)) <= 1
        /\ \A j, k \in IssuesCreatedFor(i) :
              esSent[j].loop = "subtasks" => esSent[k].loop # "fallback"

\* the fetch gave a list of transitions
FetchedTransitions == trFetched.success /\ trFetched.hasData /\ trFetched.hasTransitions

\* the transitions of the fetched list named like the request, ignoring case
MatchingTransitions ==
    { i \in 1..Len(trFetched.transitions) :
        EqualsIgnoringCase(trFetched.transitions[i].name, trParams.transitionName) }

\* C30: the transition is posted only once the transitions of the issue
\* were fetched successfully, at most once, for the issue asked for and with
\* the id of a fetched transition whose name equals the requested name
\* case-insensitively; when the fetch failed or no transition matches,
\* nothing is posted and the reply is an error, which in the no-match case
\* names every available transition.
C30_PostOnlyFetchedMatchingTransition ==
    /\ trPc \in {"idle", "fetching"} => trPosts = <<>>
    /\ trPosts # <<>> =>
          /\ Len(trPosts) = 1 /\ trFetches = 1
          /\ FetchedTransitions
          /\ trPosts[1].issueKey = trParams.issueKey
          /\ \E i \in MatchingTransitions :
                trPosts[1].transitionId = trFetched.transitions[i].id
    /\ (trPc \in {"posting", "done"} /\ (~FetchedTransitions \/ MatchingTransitions = {})) =>
          /\ trPosts = <<>>
          /\ trPc = "done"
          /\ trReply.kind \in {"fetchFailed", "invalidResponse", "notFound"}
          /\ FetchedTransitions =>
                /\ trReply.kind = "notFound"
                /\ \A i \in 1..Len(trFetched.transitions) :
                      Includes(trReply.detail, trFetched.transitions[i].name)

\* "done" is asked for: the list offers "Mark as Done" before "Done", and
\* the id of "Done" is posted
C30_Witness ==
    /\ trPc = "done" /\ trParams.transitionName = "done"
    /\ trFetched = TransitionsFetched(TRUE, TRUE,
          <<Transition("21", "Mark as Done"), Transition("31", "Done")>>)
    /\ trPosts = <<[issueKey |-> "PR-1", transitionId |-> "31", transitionName |-> "Done"]>>
    /\ trReply = Reply("transitioned", "Done")

====
